---- MODULE Spec2Model ----
(***************************************************************************)
(* Phase orchestrator of the code generator (src/core/code-generator.ts):   *)
(* CodeGenerator.generateApp with the collaborators it calls - the LLM      *)
(* gateway (src/lib/llm.ts), the progress store stub, the build service     *)
(* (src/services/build.ts) and the artifact bucket.                         *)
(*                                                                         *)
(* Spec: one run of generateApp, one await per step.  The outcome of every  *)
(* remote call is an input of the step that makes it.                       *)
(* SpecPure: one application of the model picker or of a response parser    *)
(* to an input drawn from a bounded set.                                    *)
(* SpecRuns: two sessions with different identifiers running concurrently,  *)
(* seen through their writes to the progress store and the bucket.          *)
(***************************************************************************)
EXTENDS Integers, Sequences, FiniteSets, TLC

VARIABLES
    request,       \* the CodeGenerationRequest: jtbds and frontend_framework
    agentId,       \* the session identifier handed to generateApp
    pc,            \* position of the run inside generateApp
    phaseIdx,      \* index into phases of the loop's current element
    currentPhase,  \* the local counter of generateApp (line 54)
    allFiles,      \* the accumulated GeneratedFile list (line 53)
    posts,         \* history: every agentStub.fetch("https://do/progress")
    llmCalls,      \* history: every callLLM / generateUIWithGoogle call
    buildCalls,    \* history: every buildService.buildApp call
    puts,          \* history: every AGENT_ASSETS.put that resolved
    assetIdx,      \* position of the asset loop of createPreviewAndDeploy
    buildResult,   \* what buildGeneratedApp returned
    result,        \* what createPreviewAndDeploy returned
    pure,          \* one application of a pure function: input and output
    runs,          \* concurrent sessions: the position of each run
    progressWrites, \* every progress update of the sessions, by addressee
    bucketWrites,  \* every AGENT_ASSETS.put of the sessions, by key
    custom,        \* the locals of one customizeTemplate call
    store,         \* the progress store: DO storage, snapshots sent, reads
    sandbox,       \* one SandboxService: its container map and its calls
    sockets        \* one WebSocketManager: its connections and deliveries

\* The state of the single run of generateApp.
runVars == <<request, agentId, pc, phaseIdx, currentPhase, allFiles, posts,
             llmCalls, buildCalls, puts, assetIdx, buildResult, result>>

\* The state of the concurrent sessions.
sessionVars == <<runs, progressWrites, bucketWrites>>

\* The in-memory registries: sandbox containers and WebSocket connections.
registryVars == <<sandbox, sockets>>

\* The state of the customizer, of the progress store and of the registries.
serviceVars == <<custom, store, registryVars>>

vars == <<runVars, pure, sessionVars, serviceVars>>

(***************************************************************************)
(* Bounds of the model.                                                     *)
(***************************************************************************)
\* longest JSON array of file entries an LLM response carries
MaxEntries == 1

\* longest JSON array handed to a response parser on its own
MaxArrayLen == 2

\* longest input_sources, outputs and api_keys_required of a UserRequirements
MaxInputs == 2

MaxOutputs == 1

MaxApis == 2

(***************************************************************************)
(* generateApp: the phase table.                                            *)
(***************************************************************************)
phases == <<"planning", "foundation", "core", "styling", "integration",
            "optimization">>

PhaseNames == {phases[i] : i \in 1..Len(phases)}

\* Number of events of the run so far; the next event is stamped with it + 1.
Clock == Len(posts) + Len(llmCalls) + Len(buildCalls) + Len(puts)

NoValue == [none |-> TRUE]

(***************************************************************************)
(* pickLLMForJTBD.  The function reads the description only through         *)
(* includes() tests on its lower-cased text, so a text is represented by    *)
(* the keywords that occur in it and the letter case it is written in.      *)
(***************************************************************************)
Keywords == {"ui", "interface", "dashboard", "copy", "email", "summary",
             "vision", "image", "audio", "transcribe", "analysis", "report",
             "data"}

Description(words, casing) == [words |-> words, casing |-> casing]

\* A description that was not given (undefined, null or "").
NoDescription == Description({}, "absent")

\* (jtbd || "")
orEmpty(jtbd) ==
    IF jtbd.casing = "absent" THEN Description({}, "lower") ELSE jtbd

toLowerCase(text) == Description(text.words, "lower")

\* text.includes(keyword), which compares letters case-sensitively.
includes(text, keyword) == text.casing = "lower" /\ keyword \in text.words

includesAny(text, keywords) == \E k \in keywords : includes(text, k)

NoFallback == [provider |-> "", model |-> "", reason |-> ""]

BudgetFallback ==
    [provider |-> "openai", model |-> "gpt-5-mini", reason |-> "budget alternative"]

\* Mutant of pickLLMForJTBD: the analysis rule is tried before the UI rule.
pickLLMForJTBDAnalysisFirst(jtbd) ==
    LET s == toLowerCase(orEmpty(jtbd)) IN
    IF includesAny(s, {"analysis", "report", "data"})
    THEN [provider |-> "openai", model |-> "gpt-5",
          reason |-> "reasoning & structured outputs", fallback |-> NoFallback]
    ELSE IF includesAny(s, {"ui", "interface", "dashboard"})
    THEN [provider |-> "googleai", model |-> "gemini-2.0-pro-exp",
          reason |-> "front-end code generation", fallback |-> NoFallback]
    ELSE IF includesAny(s, {"copy", "email", "summary"})
    THEN [provider |-> "anthropic", model |-> "claude-3.7-sonnet",
          reason |-> "long-form & nuance", fallback |-> BudgetFallback]
    ELSE IF includesAny(s, {"vision", "image", "audio", "transcribe"})
    THEN [provider |-> "google", model |-> "gemini-2.5-pro",
          reason |-> "multimodal strength", fallback |-> NoFallback]
    ELSE [provider |-> "anthropic", model |-> "claude-3.7-sonnet",
          reason |-> "balanced generalist", fallback |-> BudgetFallback]

pickLLMForJTBD(jtbd) ==
    LET s == toLowerCase(orEmpty(jtbd)) IN
    IF includesAny(s, {"ui", "interface", "dashboard"})
    THEN [provider |-> "googleai", model |-> "gemini-2.0-pro-exp",
          reason |-> "front-end code generation", fallback |-> NoFallback]
    ELSE IF includesAny(s, {"copy", "email", "summary"})
    THEN [provider |-> "anthropic", model |-> "claude-3.7-sonnet",
          reason |-> "long-form & nuance", fallback |-> BudgetFallback]
    ELSE IF includesAny(s, {"vision", "image", "audio", "transcribe"})
    THEN [provider |-> "google", model |-> "gemini-2.5-pro",
          reason |-> "multimodal strength", fallback |-> NoFallback]
    ELSE IF includesAny(s, {"analysis", "report", "data"})
    THEN [provider |-> "openai", model |-> "gpt-5",
          reason |-> "reasoning & structured outputs", fallback |-> NoFallback]
    ELSE [provider |-> "anthropic", model |-> "claude-3.7-sonnet",
          reason |-> "balanced generalist", fallback |-> BudgetFallback]

(***************************************************************************)
(* The request and the session identifier.                                  *)
(***************************************************************************)
Requests ==
    { [jtbds |-> Description({}, "lower"), frontend_framework |-> "react"],
      [jtbds |-> Description({"dashboard", "report"}, "lower"),
       frontend_framework |-> "vite"] }

AgentIds == {"agent-a", "agent-b"}

\* The runs explored: each request under a session identifier of its own.
Sessions ==
    { s \in Requests \X AgentIds : (s[1].jtbds.words = {}) <=> (s[2] = "agent-a") }

(***************************************************************************)
(* JSON values as JavaScript sees them after JSON.parse: a tag and a        *)
(* payload.  An object is the sequence of its <<key, value>> members in     *)
(* insertion order.                                                         *)
(***************************************************************************)
JNull == [t |-> "null", v |-> << >>]

Undefined == [t |-> "undefined", v |-> << >>]

JStr(s) == [t |-> "str", v |-> s]

JArr(es) == [t |-> "arr", v |-> es]

JObj(ms) == [t |-> "obj", v |-> ms]

\* value[key] of JavaScript, for a value that is not null.
Get(value, key) ==
    IF value.t = "obj" /\ \E i \in DOMAIN value.v : value.v[i][1] = key
    THEN LET i == CHOOSE i \in DOMAIN value.v :
                    /\ value.v[i][1] = key
                    /\ \A j \in DOMAIN value.v : value.v[j][1] = key => j <= i
         IN value.v[i][2]
    ELSE Undefined

\* The truthiness `||` tests.
Truthy(value) ==
    CASE value.t \in {"null", "undefined"} -> FALSE
      [] value.t = "str" -> value.v # ""
      [] OTHER -> TRUE

\* JSON.stringify(value, null, gap): gap "" is the compact form, gap "  "
\* the form indented by two spaces; indent is the current indentation.
RECURSIVE JSONstringify(_, _, _)
RECURSIVE JoinItems(_, _, _, _)
JoinItems(items, gap, indent, isObj) ==
    IF Len(items) = 0 THEN ""
    ELSE LET one == IF isObj
                    THEN "\"" \o items[1][1] \o "\":"
                         \o (IF gap = "" THEN "" ELSE " ")
                         \o JSONstringify(items[1][2], gap, indent)
                    ELSE JSONstringify(items[1], gap, indent)
             sep == IF gap = "" THEN "," ELSE ",\n" \o indent
         IN IF Len(items) = 1 THEN one
            ELSE one \o sep \o JoinItems(Tail(items), gap, indent, isObj)

JSONstringify(value, gap, indent) ==
    CASE value.t = "null" -> "null"
      [] value.t = "str" -> "\"" \o value.v \o "\""
      [] OTHER ->
         LET open  == IF value.t = "arr" THEN "[" ELSE "{"
             close == IF value.t = "arr" THEN "]" ELSE "}"
             inner == indent \o gap
         IN IF Len(value.v) = 0 THEN open \o close
            ELSE IF gap = ""
            THEN open \o JoinItems(value.v, gap, inner, value.t = "obj") \o close
            ELSE open \o "\n" \o inner
                 \o JoinItems(value.v, gap, inner, value.t = "obj")
                 \o "\n" \o indent \o close

(***************************************************************************)
(* What the LLM gateway can answer.  An answer is the string returned by    *)
(* callLLM (raw) together with what JSON.parse makes of it: valid says the  *)
(* text parses, json is the value it parses to.  A text that parses is the  *)
(* serialization of its value in some layout.                               *)
(***************************************************************************)
JSONText(value, gap) ==
    [raw |-> JSONstringify(value, gap, ""), valid |-> TRUE, json |-> value]

PlainText(s) == [raw |-> s, valid |-> FALSE, json |-> Undefined]

FileEntry ==
    JObj(<< <<"path", JStr("src/App.tsx")>>,
            <<"content", JStr("export default App")>> >>)

\* A file entry of the UI-generation answer, which names a phase of its own.
UIFileEntry ==
    JObj(<< <<"path", JStr("src/styles.css")>>,
            <<"content", JStr("body { margin: 0 }")>>,
            <<"phase", JStr("ui")>> >>)

\* The non-empty entry lists a JSON answer carries.
EntryLists ==
    UNION { [1..n -> {FileEntry}] : n \in 1..MaxEntries }

UIEntryLists ==
    UNION { [1..n -> {UIFileEntry}] : n \in 1..MaxEntries }

TextReply == PlainText("Here is the plan")

ObjectReply == JSONText(JObj(<< <<"files", JArr(<< >>)>> >>), "")

ArrayReplies == { JSONText(JArr(es), "") : es \in EntryLists }

\* The answers callLLM is given for a phase.
LLMReplies(phase) ==
    IF phase = "planning" THEN {TextReply, ObjectReply}
    ELSE {TextReply} \cup ArrayReplies

\* The bodies the Gemini endpoint of generateUIWithGoogle answers with:
\* text that is no JSON, JSON with a files list, JSON without one.
UIReplies ==
    { PlainText("Here are your styles"), JSONText(JObj(<< >>), "") }
    \cup { JSONText(JObj(<< <<"files", JArr(es)>> >>), "") : es \in UIEntryLists }

(***************************************************************************)
(* Response parser.  The file lists it returns keep path and content as     *)
(* strings: the answers of the model carry strings under these keys.        *)
(***************************************************************************)
\* JSON.stringify(data, null, 2).
JSONstringify2(data) == JSONstringify(data, "  ", "")

\* Mutant of parsePlanningResponse: the raw text is kept, not re-serialized.
parsePlanningResponseKeepsRaw(response, phase) ==
    IF response.valid
    THEN << [path |-> "project-structure.json", content |-> response.raw,
             phase |-> phase] >>
    ELSE << [path |-> "planning-notes.txt", content |-> response.raw,
             phase |-> phase] >>

parsePlanningResponse(response, phase) ==
    IF response.valid
    THEN << [path |-> "project-structure.json",
             content |-> JSONstringify2(response.json), phase |-> phase] >>
    ELSE << [path |-> "planning-notes.txt", content |-> response.raw,
             phase |-> phase] >>

\* f.content || f : an entry without content stands for itself.  A string
\* is its own text; any other value is written here by its JSON text.
EntryAsContent(f) == IF f.t = "str" THEN f.v ELSE JSONstringify(f, "", "")

\* The callback of files.map for one element.
mapEntry(f, phase) ==
    [path |-> IF Truthy(Get(f, "path")) THEN Get(f, "path").v
              ELSE "phase-" \o phase \o ".txt",
     content |-> IF Truthy(Get(f, "content")) THEN Get(f, "content").v
                 ELSE EntryAsContent(f),
     phase |-> phase]

\* The single fallback file of parseCodeResponse.
fallbackFile(response, phase) ==
    << [path |-> "phase-" \o phase \o ".tsx", content |-> response.raw,
        phase |-> phase] >>

\* Mutant of parseCodeResponse: any JSON value counts, and a value that is
\* no array is wrapped re-serialized.
parseCodeResponseAnyJSON(response, phase) ==
    IF response.valid /\ response.json.t = "arr"
       /\ \A i \in DOMAIN response.json.v : response.json.v[i].t # "null"
    THEN [i \in 1..Len(response.json.v) |-> mapEntry(response.json.v[i], phase)]
    ELSE IF response.valid
    THEN << [path |-> "phase-" \o phase \o ".tsx",
             content |-> JSONstringify2(response.json), phase |-> phase] >>
    ELSE fallbackFile(response, phase)

\* try { JSON.parse; if (Array.isArray) return map } catch {} ; fallback.
\* Reading f.path of a null element throws inside the try and is caught.
parseCodeResponse(response, phase) ==
    IF response.valid /\ response.json.t = "arr"
       /\ \A i \in DOMAIN response.json.v : response.json.v[i].t # "null"
    THEN [i \in 1..Len(response.json.v) |-> mapEntry(response.json.v[i], phase)]
    ELSE fallbackFile(response, phase)

\* Mutant of generateUIWithGoogle: text that does not parse yields no file
\* list at all.
generateUIWithGoogleStrict(reply) ==
    IF reply.valid /\ reply.json.t # "null" /\ Get(reply.json, "files").t = "arr"
    THEN [hasFiles |-> TRUE, files |-> Get(reply.json, "files").v]
    ELSE [hasFiles |-> FALSE, files |-> << >>]

\* generateUIWithGoogle after a 2xx answer: JSON.parse(text), or the soft
\* failure { files: [] } when the text does not parse.  hasFiles says the
\* returned value has an array under files, which is what .map needs.
generateUIWithGoogle(reply) ==
    IF ~reply.valid THEN [hasFiles |-> TRUE, files |-> << >>]
    ELSE IF reply.json.t # "null" /\ Get(reply.json, "files").t = "arr"
    THEN [hasFiles |-> TRUE, files |-> Get(reply.json, "files").v]
    ELSE [hasFiles |-> FALSE, files |-> << >>]

\* Mutant of tagWithPhase: a phase the entry names itself wins.
tagKeepsOwnPhase(f, phase) ==
    [path |-> Get(f, "path").v, content |-> Get(f, "content").v,
     phase |-> IF Get(f, "phase").t = "str" THEN Get(f, "phase").v ELSE phase]

\* ({ ...f, phase }): the members of the entry, with phase set last.
tagWithPhase(f, phase) ==
    [path |-> Get(f, "path").v, content |-> Get(f, "content").v,
     phase |-> phase]

(***************************************************************************)
(* generatePhase.  The gateway call of a phase either throws (missing       *)
(* credential, non-2xx answer, network error) or answers; the value is the  *)
(* set of ways the phase can end.  `ok` says generatePhase returned, and    *)
(* `files` is what it returned.                                             *)
(***************************************************************************)
\* Mutant of callLLMTarget: the budget fallback is used when one is declared.
callLLMTargetFallback(choice) ==
    IF choice.fallback # NoFallback
    THEN [provider |-> choice.fallback.provider, model |-> choice.fallback.model]
    ELSE [provider |-> choice.provider, model |-> choice.model]

\* callLLM reads provider and model of the choice (const { provider, model }).
callLLMTarget(choice) == [provider |-> choice.provider, model |-> choice.model]

\* phase.includes("ui"): no name of the phase table contains "ui".
PhasesNamingUi == {n \in PhaseNames : FALSE}

UIModel == "gemini-2.0-pro-exp"

\* Mutant of buildPhasePrompt: the prompt lists no earlier file.
buildPhasePromptNoContext(req, phase, previousFiles) ==
    [framework |-> req.frontend_framework, purpose |-> req.jtbds,
     phase |-> phase, previous |-> << >>]

\* buildPhasePrompt: the parts of the prompt text that vary, the line
\* "- path (phase)" of every previous file among them, in list order.
buildPhasePrompt(req, phase, previousFiles) ==
    [framework |-> req.frontend_framework, purpose |-> req.jtbds,
     phase |-> phase,
     previous |-> [i \in 1..Len(previousFiles) |->
                     <<previousFiles[i].path, previousFiles[i].phase>>]]

\* One gateway call as the run observes it.
CallRecord(prompt, fn, target, threw, ok, files) ==
    [phase |-> prompt.phase, prompt |-> prompt, fn |-> fn,
     provider |-> target.provider, model |-> target.model,
     threw |-> threw, ok |-> ok, files |-> files]

generatePhase(req, phase, previousFiles) ==
    LET llmChoice == pickLLMForJTBD(req.jtbds)
        target    == callLLMTarget(llmChoice)
        uiTarget  == [provider |-> "googleai", model |-> UIModel]
        prompt    == buildPhasePrompt(req, phase, previousFiles)
    IN
    IF phase = "planning"
    THEN {CallRecord(prompt, "callLLM", target, TRUE, FALSE, << >>)}
         \cup {CallRecord(prompt, "callLLM", target, FALSE, TRUE,
                          parsePlanningResponse(r, phase)) :
                 r \in LLMReplies(phase)}
    ELSE IF phase \in PhasesNamingUi \/ phase = "styling"
    THEN {CallRecord(prompt, "generateUIWithGoogle", uiTarget, TRUE, FALSE, << >>)}
         \cup {LET uiResult == generateUIWithGoogle(r) IN
               \* uiResult.files.map(...) throws when the parsed JSON has no files
               IF uiResult.hasFiles
               THEN CallRecord(prompt, "generateUIWithGoogle", uiTarget, FALSE, TRUE,
                        [i \in 1..Len(uiResult.files) |->
                            tagWithPhase(uiResult.files[i], phase)])
               ELSE CallRecord(prompt, "generateUIWithGoogle", uiTarget, FALSE, FALSE,
                               << >>) :
                 r \in UIReplies}
    ELSE {CallRecord(prompt, "callLLM", target, TRUE, FALSE, << >>)}
         \cup {CallRecord(prompt, "callLLM", target, FALSE, TRUE,
                          parseCodeResponse(r, phase)) :
                 r \in LLMReplies(phase)}

(***************************************************************************)
(* Build service (src/services/build.ts).                                   *)
(***************************************************************************)
\* The result executeBuild simulates: a successful build with three assets.
StubAssets ==
    << [path |-> "index.html", type |-> "html",
        content |-> "<!DOCTYPE html><html><body><h1>Built App</h1></body></html>"],
       [path |-> "assets/index.js", type |-> "js",
        content |-> "console.log(\"Built JavaScript\");"],
       [path |-> "assets/index.css", type |-> "css",
        content |-> "body { font-family: Arial; }"] >>

\* executeBuild stands for a container build: the ways it can end are the
\* simulated success, a reported failure, and an exception.
executeBuildOutcomes ==
    { [threw |-> FALSE, success |-> TRUE, hasAssets |-> TRUE,
       assets |-> StubAssets, errors |-> << >>,
       warnings |-> <<"Some warnings about unused imports">>],
      [threw |-> FALSE, success |-> FALSE, hasAssets |-> FALSE,
       assets |-> << >>, errors |-> <<"npm run build failed">>,
       warnings |-> << >>],
      [threw |-> TRUE, message |-> "executeBuild", success |-> FALSE,
       hasAssets |-> FALSE, assets |-> << >>, errors |-> << >>,
       warnings |-> << >>] }

\* Mutant of buildApp: the catch block reports no error.
buildAppSilent(buildId, exec) ==
    IF exec.threw
    THEN [success |-> FALSE, buildId |-> buildId, hasAssets |-> FALSE,
          assets |-> << >>, errors |-> << >>, warnings |-> << >>]
    ELSE [success |-> exec.success, buildId |-> buildId,
          hasAssets |-> exec.hasAssets, assets |-> exec.assets,
          errors |-> exec.errors, warnings |-> exec.warnings]

\* exec is how the try block ends: with the result of executeBuild, or with
\* an exception whose message the catch block reports.
buildApp(buildId, exec) ==
    IF exec.threw
    THEN [success |-> FALSE, buildId |-> buildId, hasAssets |-> FALSE,
          assets |-> << >>, errors |-> <<"Build failed: " \o exec.message>>,
          warnings |-> << >>]
    ELSE [success |-> exec.success, buildId |-> buildId,
          hasAssets |-> exec.hasAssets, assets |-> exec.assets,
          errors |-> exec.errors, warnings |-> exec.warnings]

\* Mutant of buildRequest: the framework is hard-coded.
buildRequestFixedFramework(files, req, id) ==
    [appId |-> id,
     files |-> [i \in 1..Len(files) |->
                  [path |-> files[i].path, content |-> files[i].content]],
     framework |-> "vite",
     dependencies |-> {}]

\* buildGeneratedApp: the request handed to buildService.buildApp.
buildRequest(files, req, id) ==
    [appId |-> id,
     files |-> [i \in 1..Len(files) |->
                  [path |-> files[i].path, content |-> files[i].content]],
     framework |-> req.frontend_framework,
     dependencies |-> {}]

(***************************************************************************)
(* createPreviewAndDeploy.                                                  *)
(***************************************************************************)
contentType(type) ==
    CASE type = "html" -> "text/html"
      [] type = "js" -> "application/javascript"
      [] type = "css" -> "text/css"
      [] OTHER -> "text/plain"

\* Mutant of assetKey: the key does not name the session.
assetKeyShared(id, asset) == "apps/" \o asset.path

assetKey(id, asset) == "apps/" \o id \o "/" \o asset.path

storesAssets(br) == br.success /\ br.hasAssets

\* Mutant of previewResult: the deployment is named after the build.
previewResultOfBuild(files, br, id) ==
    [files |-> files, preview_url |-> "https://" \o id \o ".yourdomain.com",
     deployment_id |-> br.buildId, build_result |-> br]

previewResult(files, br, id) ==
    [files |-> files, preview_url |-> "https://" \o id \o ".yourdomain.com",
     deployment_id |-> id, build_result |-> br]

(***************************************************************************)
(* generateApp.                                                             *)
(***************************************************************************)
\* Mutant of Progress: the phase being started is counted as completed.
ProgressCountsCurrent(completed) ==
    [num |-> (completed + 1) * 100, den |-> Len(phases)]

\* (currentPhase / phases.length) * 100, kept exact as a fraction.
Progress(completed) == [num |-> completed * 100, den |-> Len(phases)]

Hundred == [num |-> 100, den |-> 1]

\* The loop moves to its next element, or leaves for the build.
NextIteration ==
    /\ phaseIdx' = phaseIdx + 1
    /\ pc' = IF phaseIdx = Len(phases) THEN "build" ELSE "progress"

\* Mutant of CatchPhaseError: a failed phase ends the loop.
CatchPhaseErrorAborts ==
    /\ phaseIdx' = Len(phases) + 1
    /\ pc' = "build"

\* catch (error) of the loop body: log and go on with the next phase.
CatchPhaseError == NextIteration

\* The outcomes of agentStub.fetch: the promise resolves (whatever the
\* status of the answer, which generateApp does not read) or rejects.
FetchOutcomes == {"resolved", "rejected"}

Init ==
    /\ \E s \in Sessions : request = s[1] /\ agentId = s[2]
    /\ pc = "progress"
    /\ phaseIdx = 1
    /\ currentPhase = 0
    /\ allFiles = << >>
    /\ posts = << >>
    /\ llmCalls = << >>
    /\ buildCalls = << >>
    /\ puts = << >>
    /\ assetIdx = 1
    /\ buildResult = NoValue
    /\ result = NoValue
    /\ pure = NoValue
    /\ runs = << >>
    /\ progressWrites = {}
    /\ bucketWrites = {}
    /\ custom = NoValue
    /\ store = NoValue
    /\ sandbox = NoValue
    /\ sockets = NoValue

\* Lines 60-69: the progress update of the phase, awaited inside the try.
PostProgress ==
    /\ pc = "progress"
    /\ UNCHANGED <<pure, sessionVars, serviceVars>>
    /\ \E o \in FetchOutcomes :
         /\ posts' = Append(posts,
                [phase |-> phases[phaseIdx], progress |-> Progress(currentPhase),
                 status |-> "generating", result |-> NoValue,
                 at |-> Clock + 1, outcome |-> o])
         /\ IF o = "resolved"
            THEN pc' = "generate" /\ UNCHANGED phaseIdx
            ELSE CatchPhaseError
    /\ UNCHANGED <<request, agentId, currentPhase, allFiles, llmCalls,
                   buildCalls, puts, assetIdx, buildResult, result>>

\* Mutant of pushFiles: the new files go in front of the list.
unshiftFiles(all, new) == new \o all

\* allFiles.push(...phaseFiles).
pushFiles(all, new) == all \o new

\* Lines 71-78: generatePhase, then push and count, or the catch.
GeneratePhaseFrom(label) ==
    /\ pc = label
    /\ UNCHANGED <<pure, sessionVars, serviceVars>>
    /\ \E c \in generatePhase(request, phases[phaseIdx], allFiles) :
         /\ llmCalls' = Append(llmCalls, [call |-> c, at |-> Clock + 1])
         /\ IF c.ok
            THEN /\ allFiles' = pushFiles(allFiles, c.files)
                 /\ currentPhase' = currentPhase + 1
                 /\ NextIteration
            ELSE /\ UNCHANGED <<allFiles, currentPhase>>
                 /\ CatchPhaseError
    /\ UNCHANGED <<request, agentId, posts, buildCalls, puts, assetIdx,
                   buildResult, result>>

\* Mutant of GeneratePhase: the phase runs without waiting for its update.
GeneratePhaseUnposted == GeneratePhaseFrom("progress")

GeneratePhase == GeneratePhaseFrom("generate")

\* Lines 81-83 and buildGeneratedApp.
BuildGeneratedApp ==
    /\ pc = "build"
    /\ UNCHANGED <<pure, sessionVars, serviceVars>>
    /\ \E exec \in executeBuildOutcomes :
         buildResult' = buildApp("build_" \o ToString(Clock + 1), exec)
    /\ buildCalls' = Append(buildCalls,
            [request |-> buildRequest(allFiles, request, agentId),
             at |-> Clock + 1])
    /\ assetIdx' = 1
    /\ pc' = "deploy"
    /\ UNCHANGED <<request, agentId, phaseIdx, currentPhase, allFiles, posts,
                   llmCalls, puts, result>>

\* Lines 288-302: one AGENT_ASSETS.put of the asset loop.  The put rejects,
\* or throws because the environment carries no AGENT_ASSETS binding, and
\* nothing catches it.
StoreAsset ==
    /\ pc = "deploy"
    /\ UNCHANGED <<pure, sessionVars, serviceVars>>
    /\ storesAssets(buildResult)
    /\ assetIdx <= Len(buildResult.assets)
    /\ \E o \in FetchOutcomes :
         IF o = "resolved"
         THEN /\ puts' = Append(puts,
                    [key |-> assetKey(agentId, buildResult.assets[assetIdx]),
                     content |-> buildResult.assets[assetIdx].content,
                     contentType |-> contentType(buildResult.assets[assetIdx].type),
                     at |-> Clock + 1])
              /\ assetIdx' = assetIdx + 1
              /\ UNCHANGED pc
         ELSE /\ pc' = "raised"
              /\ UNCHANGED <<puts, assetIdx>>
    /\ UNCHANGED <<request, agentId, phaseIdx, currentPhase, allFiles, posts,
                   llmCalls, buildCalls, buildResult, result>>

\* Lines 304-311: createPreviewAndDeploy returns the result record.
CreatePreviewAndDeploy ==
    /\ pc = "deploy"
    /\ UNCHANGED <<pure, sessionVars, serviceVars>>
    /\ storesAssets(buildResult) => assetIdx > Len(buildResult.assets)
    /\ result' = previewResult(allFiles, buildResult, agentId)
    /\ pc' = "complete"
    /\ UNCHANGED <<request, agentId, phaseIdx, currentPhase, allFiles, posts,
                   llmCalls, buildCalls, puts, assetIdx, buildResult>>

\* Lines 88-99: the final update, awaited outside any try, then return.
MarkComplete ==
    /\ pc = "complete"
    /\ UNCHANGED <<pure, sessionVars, serviceVars>>
    /\ \E o \in FetchOutcomes :
         /\ posts' = Append(posts,
                [phase |-> "complete", progress |-> Hundred,
                 status |-> "completed", result |-> result,
                 at |-> Clock + 1, outcome |-> o])
         /\ pc' = IF o = "resolved" THEN "returned" ELSE "raised"
    /\ UNCHANGED <<request, agentId, phaseIdx, currentPhase, allFiles,
                   llmCalls, buildCalls, puts, assetIdx, buildResult, result>>

Next ==
    \/ PostProgress
    \/ GeneratePhase
    \/ BuildGeneratedApp
    \/ StoreAsset
    \/ CreatePreviewAndDeploy
    \/ MarkComplete

Spec == Init /\ [][Next]_vars

Finished == pc \in {"returned", "raised"}

TypeOK ==
    /\ pc \in {"progress", "generate", "build", "deploy", "complete",
               "returned", "raised"}
    /\ phaseIdx \in 1..(Len(phases) + 1)
    /\ currentPhase \in 0..Len(phases)

(***************************************************************************)
(* Vocabulary of the properties.                                            *)
(***************************************************************************)
PhaseIndexOf == [p \in PhaseNames |-> CHOOSE i \in 1..Len(phases) : phases[i] = p]

PhaseIndex(p) == PhaseIndexOf[p]

CompletedPosts == {k \in DOMAIN posts : posts[k].status = "completed"}

GeneratingPosts == {k \in DOMAIN posts : posts[k].status = "generating"}

\* The loop has entered the phase: its progress update has been issued.
Entered(p) == \E k \in GeneratingPosts : posts[k].phase = p

CallsOf(p) == {i \in DOMAIN llmCalls : llmCalls[i].call.phase = p}

FilesTagged(fs, p) == {i \in DOMAIN fs : fs[i].phase = p}

LoopOver == pc \notin {"progress", "generate"}

\* fs contains part as a block of consecutive elements.
ContainsBlock(fs, part) ==
    \E k \in 0..(Len(fs) - Len(part)) :
        \A i \in 1..Len(part) : fs[k + i] = part[i]

\* a <= b and a < b on fractions with positive denominators.
Leq(a, b) == a.num * b.den <= b.num * a.den

Less(a, b) == a.num * b.den < b.num * a.den

\* The phases whose generatePhase has returned before event time t.
CompletedBefore(t) ==
    {i \in DOMAIN llmCalls : llmCalls[i].call.ok /\ llmCalls[i].at < t}

(***************************************************************************)
(* C1 (stated as claimed): when generateApp has ended, the run has posted   *)
(* exactly one update with status "completed" and progress 100, and that    *)
(* update is the last one posted.                                           *)
(***************************************************************************)
C1_ExactlyOneCompletedLast ==
    Finished =>
        /\ Cardinality(CompletedPosts) = 1
        /\ Len(posts) \in CompletedPosts
        /\ posts[Len(posts)].progress = Hundred

(***************************************************************************)
(* C2: a phase whose LLM call threw has no file in the accumulated list,    *)
(* every phase the loop has passed was entered (a failure ends no run       *)
(* early: after the loop all six were), and the files a phase returned are  *)
(* in the accumulated list and in the result once there is one.             *)
(***************************************************************************)
C2_FailedPhaseContributesNothing ==
    /\ \A i \in DOMAIN llmCalls :
         LET c == llmCalls[i].call IN
         /\ c.threw => FilesTagged(allFiles, c.phase) = {}
         /\ c.ok => /\ ContainsBlock(allFiles, c.files)
                    /\ result # NoValue => ContainsBlock(result.files, c.files)
    /\ \A j \in 1..Len(phases) : j < phaseIdx => Entered(phases[j])
    /\ LoopOver => phaseIdx = Len(phases) + 1

C2_Witness ==
    /\ pc = "returned"
    /\ \E i \in CallsOf("styling") : llmCalls[i].call.threw
    /\ \A p \in PhaseNames \ {"styling"} : FilesTagged(result.files, p) # {}
    /\ FilesTagged(result.files, "styling") = {}

(***************************************************************************)
(* C3 (stated as claimed): generateApp never raises to its caller.          *)
(***************************************************************************)
C3_NeverRaises == pc # "raised"

(***************************************************************************)
(* C4 (stated as claimed): the phases are entered in the order of the       *)
(* table, each once, none skipped, and a run that has ended has reached     *)
(* "complete" exactly once.                                                 *)
(***************************************************************************)
C4_LinearOrderCompleteOnce ==
    /\ \A k \in GeneratingPosts : k <= Len(phases) /\ posts[k].phase = phases[k]
    /\ \A k \in CompletedPosts : k = Len(phases) + 1
    /\ Finished =>
         Cardinality({k \in DOMAIN posts : posts[k].phase = "complete"}) = 1

(***************************************************************************)
(* C5 (stated as claimed): each phase issues at most one LLM call, a run    *)
(* at most six, and every call is made with the primary choice of           *)
(* pickLLMForJTBD.                                                          *)
(***************************************************************************)
C5_OnlyPrimaryChoice ==
    /\ \A p \in PhaseNames : Cardinality(CallsOf(p)) <= 1
    /\ Len(llmCalls) <= 6
    /\ \A i \in DOMAIN llmCalls :
         LET c == llmCalls[i].call
             primary == pickLLMForJTBD(request.jtbds) IN
         c.provider = primary.provider /\ c.model = primary.model

(***************************************************************************)
(* C5 (amended): each phase issues at most one LLM call and a run at most   *)
(* six; the calls of the text phases use the primary choice, the styling    *)
(* call goes to the UI-generation entry point with the fixed model          *)
(* gemini-2.0-pro-exp, and no call uses the declared fallback.              *)
(***************************************************************************)
C5_NoRetryNoFallback ==
    /\ \A p \in PhaseNames : Cardinality(CallsOf(p)) <= 1
    /\ Len(llmCalls) <= 6
    /\ \A i \in DOMAIN llmCalls :
         LET c == llmCalls[i].call
             primary == pickLLMForJTBD(request.jtbds) IN
         /\ c.phase # "styling" =>
               /\ c.fn = "callLLM"
               /\ c.provider = primary.provider /\ c.model = primary.model
         /\ c.phase = "styling" =>
               c.fn = "generateUIWithGoogle" /\ c.model = "gemini-2.0-pro-exp"
         /\ primary.fallback # NoFallback =>
               ~(c.provider = primary.fallback.provider
                 /\ c.model = primary.fallback.model)

C5_Witness ==
    /\ LoopOver
    /\ pickLLMForJTBD(request.jtbds).fallback # NoFallback
    /\ \A p \in PhaseNames :
         Cardinality(CallsOf(p)) = 1
         /\ \A i \in CallsOf(p) : llmCalls[i].call.threw

(***************************************************************************)
(* C6: every LLM call of a phase comes right after the progress update      *)
(* {phase, status: "generating"} of that phase has been posted and          *)
(* answered.                                                                *)
(***************************************************************************)
C6_ProgressBeforeCall ==
    \A i \in DOMAIN llmCalls :
        \E k \in GeneratingPosts :
            /\ posts[k].phase = llmCalls[i].call.phase
            /\ posts[k].outcome = "resolved"
            /\ posts[k].at + 1 = llmCalls[i].at

C6_Witness ==
    /\ CallsOf("optimization") # {}
    /\ \A p \in PhaseNames : Entered(p)

(***************************************************************************)
(* C7: the progress posted before a phase is (phases completed so far / 6)  *)
(* x 100; posted values never decrease, are below 100 while the status is   *)
(* "generating" and never exceed 100.                                       *)
(***************************************************************************)
C7_ProgressValues ==
    /\ \A k \in GeneratingPosts :
         /\ posts[k].progress.den = 6
         /\ posts[k].progress.num = Cardinality(CompletedBefore(posts[k].at)) * 100
         /\ Less(posts[k].progress, Hundred)
    /\ \A k \in DOMAIN posts : Leq(posts[k].progress, Hundred)
    /\ \A k, l \in DOMAIN posts :
         k < l => Leq(posts[k].progress, posts[l].progress)

C7_Witness ==
    /\ \E k \in GeneratingPosts :
         posts[k].phase = "optimization" /\ posts[k].progress.num = 500
    /\ CompletedPosts # {}

(***************************************************************************)
(* C8 (stated as claimed): when the progress update of a phase fails, the   *)
(* phase is still executed.                                                 *)
(***************************************************************************)
C8_PostFailureStillRunsPhase ==
    \A k \in GeneratingPosts :
        (posts[k].outcome = "rejected" /\ PhaseIndex(posts[k].phase) < phaseIdx)
            => CallsOf(posts[k].phase) # {}

(***************************************************************************)
(* C9: the build is invoked once per run, after all six phases have been    *)
(* entered and no phase runs after it, with the accumulated files and the   *)
(* framework of the request; every artifact write comes after the build     *)
(* and before the "completed" update.                                       *)
(***************************************************************************)
C9_BuildOnceAfterPhases ==
    /\ Len(buildCalls) <= 1
    /\ (LoopOver /\ pc # "build") => Len(buildCalls) = 1
    /\ \A b \in DOMAIN buildCalls :
         /\ \A p \in PhaseNames :
              \E k \in GeneratingPosts :
                  posts[k].phase = p /\ posts[k].at < buildCalls[b].at
         /\ \A i \in DOMAIN llmCalls : llmCalls[i].at < buildCalls[b].at
         /\ buildCalls[b].request.framework = request.frontend_framework
         /\ buildCalls[b].request.appId = agentId
         /\ Len(buildCalls[b].request.files) = Len(allFiles)
         /\ \A i \in DOMAIN allFiles :
              /\ buildCalls[b].request.files[i].path = allFiles[i].path
              /\ buildCalls[b].request.files[i].content = allFiles[i].content
    /\ \A u \in DOMAIN puts :
         /\ \E b \in DOMAIN buildCalls : buildCalls[b].at < puts[u].at
         /\ \A k \in CompletedPosts : puts[u].at < posts[k].at

C9_Witness ==
    /\ pc = "returned"
    /\ Len(puts) = Len(StubAssets)
    /\ request.frontend_framework = "react"
    /\ \A p \in PhaseNames : FilesTagged(allFiles, p) # {}

(***************************************************************************)
(* C10 (stated as claimed): when the build returned success:false, the run  *)
(* ends with the "completed" update posted, nothing written to the          *)
(* artifact store, and the build result returned inside the result.         *)
(***************************************************************************)
C10_BuildFailureStillCompletes ==
    (Finished /\ buildResult # NoValue /\ ~buildResult.success) =>
        /\ pc = "returned"
        /\ CompletedPosts # {}
        /\ puts = << >>
        /\ result.build_result = buildResult

(***************************************************************************)
(* Vocabulary of the file-list properties.                                  *)
(***************************************************************************)
\* The files returned by the calls of a call log that succeeded, in order.
RECURSIVE FilesOfCalls(_)
FilesOfCalls(calls) ==
    IF Len(calls) = 0 THEN << >>
    ELSE FilesOfCalls(SubSeq(calls, 1, Len(calls) - 1))
         \o (IF calls[Len(calls)].call.ok THEN calls[Len(calls)].call.files
             ELSE << >>)

IsPrefix(s, t) == Len(s) <= Len(t) /\ SubSeq(t, 1, Len(s)) = s

PhaseOrdered(fs) ==
    \A i, j \in DOMAIN fs :
        i < j => PhaseIndex(fs[i].phase) <= PhaseIndex(fs[j].phase)

Listing(fs) == [i \in 1..Len(fs) |-> <<fs[i].path, fs[i].phase>>]

PreviewUrlOf(id) == "https://" \o id \o ".yourdomain.com"

(***************************************************************************)
(* C11: the result of generateApp has files equal to the accumulated file   *)
(* list, deployment_id equal to the session identifier, preview_url         *)
(* determined by the session identifier alone and build_result equal to     *)
(* what the build returned; the "completed" update carries that record.     *)
(***************************************************************************)
C11_ResultRecord ==
    /\ result # NoValue =>
         /\ result.files = allFiles
         /\ result.deployment_id = agentId
         /\ result.preview_url = PreviewUrlOf(agentId)
         /\ buildResult # NoValue
         /\ result.build_result = buildResult
    /\ \A k \in CompletedPosts : result # NoValue /\ posts[k].result = result
    /\ pc = "returned" => (result # NoValue /\ CompletedPosts # {})

C11_Witness ==
    /\ pc = "returned"
    /\ agentId = "agent-b"
    /\ Len(result.files) >= 3
    /\ result.build_result.success
    /\ \E k \in CompletedPosts : posts[k].result.preview_url = PreviewUrlOf("agent-b")

(***************************************************************************)
(* C12: at every point of a run every file of the accumulated list is       *)
(* tagged with one of the six phase names, the one of the phase whose       *)
(* execution produced it; this includes the files of generateUIWithGoogle.  *)
(***************************************************************************)
C12_FilesTaggedWithProducingPhase ==
    /\ allFiles = FilesOfCalls(llmCalls)
    /\ \A i \in DOMAIN llmCalls :
         \A j \in DOMAIN llmCalls[i].call.files :
             /\ llmCalls[i].call.files[j].phase = llmCalls[i].call.phase
             /\ llmCalls[i].call.files[j].phase \in PhaseNames
    /\ \A i \in DOMAIN allFiles : allFiles[i].phase \in PhaseNames

C12_Witness ==
    /\ \E i \in DOMAIN allFiles :
         allFiles[i].path = "src/styles.css" /\ allFiles[i].phase = "styling"
    /\ \E i \in DOMAIN allFiles : allFiles[i].phase = "planning"
    /\ \E i \in DOMAIN allFiles : allFiles[i].phase = "optimization"

(***************************************************************************)
(* C13: the accumulated list only grows by appending: every step leaves     *)
(* the files already emitted in place and unchanged, and the files of an    *)
(* earlier phase precede the files of a later phase.                        *)
(***************************************************************************)
C13_AppendOnly ==
    [][IsPrefix(allFiles, allFiles') /\ PhaseOrdered(allFiles')]_vars

C13_Witness ==
    /\ \E i \in DOMAIN allFiles : allFiles[i].phase = "foundation"
    /\ \E i \in DOMAIN allFiles : allFiles[i].phase = "integration"
    /\ \E i \in DOMAIN llmCalls :
         llmCalls[i].call.phase = "core" /\ ~llmCalls[i].call.ok

(***************************************************************************)
(* C14: the phases of a run never overlap - the updates and calls of an     *)
(* earlier phase all come before those of a later phase, one call per       *)
(* phase - and the prompt of a phase lists exactly the files returned by    *)
(* the earlier phases that succeeded, in phase order.                       *)
(***************************************************************************)
C14_SequentialPhasesWithContext ==
    /\ \A i, j \in DOMAIN llmCalls :
         i < j => /\ PhaseIndex(llmCalls[i].call.phase)
                       < PhaseIndex(llmCalls[j].call.phase)
                  /\ llmCalls[i].at < llmCalls[j].at
    /\ \A k \in GeneratingPosts : \A i \in DOMAIN llmCalls :
         (posts[k].at < llmCalls[i].at)
             <=> (PhaseIndex(posts[k].phase) <= PhaseIndex(llmCalls[i].call.phase))
    /\ \A i \in DOMAIN llmCalls :
         /\ llmCalls[i].call.prompt.phase = llmCalls[i].call.phase
         /\ llmCalls[i].call.prompt.previous =
                Listing(FilesOfCalls(SubSeq(llmCalls, 1, i - 1)))

C14_Witness ==
    \E i \in DOMAIN llmCalls :
        /\ llmCalls[i].call.phase = "integration"
        /\ \E j \in 1..(i - 1) : ~llmCalls[j].call.ok
        /\ \E m, n \in DOMAIN llmCalls[i].call.prompt.previous :
             /\ llmCalls[i].call.prompt.previous[m][2] = "planning"
             /\ llmCalls[i].call.prompt.previous[n][2] = "styling"

(***************************************************************************)
(* SpecPure: the model picker and the response parsers, each applied once   *)
(* to an input drawn from a bounded set.                                    *)
(***************************************************************************)
\* The descriptions: any keywords, written in lower or in upper case, and
\* the description that is missing.
Descriptions ==
    { Description(w, c) : w \in SUBSET Keywords, c \in {"lower", "upper"} }
    \cup {NoDescription}

PathValues == {Undefined, JStr(""), JStr("src/App.tsx")}

ContentValues == {Undefined, JStr(""), JStr("export default App")}

\* An object with the members path and content that are given.
EntryObject(path, content) ==
    JObj((IF path.t = "undefined" THEN << >> ELSE << <<"path", path>> >>)
         \o (IF content.t = "undefined" THEN << >>
             ELSE << <<"content", content>> >>))

\* What a JSON array of a response holds: entry objects, null, strings.
Elements ==
    { EntryObject(p, c) : p \in PathValues, c \in ContentValues }
    \cup {JNull, JStr("npm install")}

JSONValues ==
    { JNull, JStr("notes"), JObj(<< >>), JObj(<< <<"files", JArr(<< >>)>> >>) }
    \cup { JArr(es) : es \in UNION { [1..n -> Elements] : n \in 0..MaxArrayLen } }

\* The layouts a JSON text comes in: compact, or indented by two spaces.
Layouts == {"", "  "}

Responses ==
    { PlainText(t) : t \in {"", "Here is the plan", "[{\"path\": "} }
    \cup { JSONText(v, g) : v \in JSONValues, g \in Layouts }

\* The phases whose response goes through parseCodeResponse.
TextPhases == PhaseNames \ {"planning", "styling"}

PureInput(fn, description, response, phase) ==
    [fn |-> fn, description |-> description, response |-> response,
     phase |-> phase, done |-> FALSE, choice |-> NoValue, files |-> << >>]

PureInputs ==
    { PureInput("pickLLMForJTBD", d, TextReply, "") : d \in Descriptions }
    \cup { PureInput("parsePlanningResponse", NoDescription, r, "planning") :
             r \in Responses }
    \cup { PureInput("parseCodeResponse", NoDescription, r, p) :
             r \in Responses, p \in TextPhases }

\* No run of generateApp is in progress.
NoRun ==
    /\ request = [jtbds |-> NoDescription, frontend_framework |-> ""]
    /\ agentId = ""
    /\ pc = "idle"
    /\ phaseIdx = 1
    /\ currentPhase = 0
    /\ allFiles = << >>
    /\ posts = << >>
    /\ llmCalls = << >>
    /\ buildCalls = << >>
    /\ puts = << >>
    /\ assetIdx = 1
    /\ buildResult = NoValue
    /\ result = NoValue

InitPure ==
    /\ NoRun
    /\ pure \in PureInputs
    /\ runs = << >>
    /\ progressWrites = {}
    /\ bucketWrites = {}
    /\ custom = NoValue
    /\ store = NoValue
    /\ sandbox = NoValue
    /\ sockets = NoValue

ApplyPickLLM ==
    /\ pure # NoValue
    /\ pure.fn = "pickLLMForJTBD" /\ ~pure.done
    /\ pure' = [pure EXCEPT !.done = TRUE,
                            !.choice = pickLLMForJTBD(pure.description)]
    /\ UNCHANGED <<runVars, sessionVars, serviceVars>>

ApplyParsePlanning ==
    /\ pure # NoValue
    /\ pure.fn = "parsePlanningResponse" /\ ~pure.done
    /\ pure' = [pure EXCEPT !.done = TRUE,
                            !.files = parsePlanningResponse(pure.response, pure.phase)]
    /\ UNCHANGED <<runVars, sessionVars, serviceVars>>

ApplyParseCode ==
    /\ pure # NoValue
    /\ pure.fn = "parseCodeResponse" /\ ~pure.done
    /\ pure' = [pure EXCEPT !.done = TRUE,
                            !.files = parseCodeResponse(pure.response, pure.phase)]
    /\ UNCHANGED <<runVars, sessionVars, serviceVars>>

NextPure ==
    \/ ApplyPickLLM
    \/ ApplyParsePlanning
    \/ ApplyParseCode

SpecPure == InitPure /\ [][NextPure]_vars

Applied(fn) == pure # NoValue /\ pure.fn = fn /\ pure.done

(***************************************************************************)
(* Vocabulary of the picker and parser properties.                          *)
(***************************************************************************)
\* The keyword groups in the order of precedence: UI, copy, vision, analysis.
RuleGroups ==
    << {"ui", "interface", "dashboard"}, {"copy", "email", "summary"},
       {"vision", "image", "audio", "transcribe"}, {"analysis", "report", "data"} >>

DefaultRule == Len(RuleGroups) + 1

\* The first group one of whose keywords the description contains.
FirstMatch(d) ==
    IF \E i \in DOMAIN RuleGroups : RuleGroups[i] \cap d.words # {}
    THEN CHOOSE i \in DOMAIN RuleGroups :
            /\ RuleGroups[i] \cap d.words # {}
            /\ \A j \in DOMAIN RuleGroups : j < i => RuleGroups[j] \cap d.words = {}
    ELSE DefaultRule

RuleProviders == <<"googleai", "anthropic", "google", "openai", "anthropic">>

RuleModels ==
    <<"gemini-2.0-pro-exp", "claude-3.7-sonnet", "gemini-2.5-pro", "gpt-5",
      "claude-3.7-sonnet">>

CopyRule == CHOOSE i \in DOMAIN RuleGroups : "copy" \in RuleGroups[i]

\* The response is a JSON array of objects with a path and a content string.
WellFormedEntries(r) ==
    /\ r.valid
    /\ r.json.t = "arr"
    /\ \A i \in DOMAIN r.json.v :
         /\ r.json.v[i].t = "obj"
         /\ Get(r.json.v[i], "path").t = "str"
         /\ Get(r.json.v[i], "content").t = "str"

IsFallbackOf(files, r, phase) ==
    files = << [path |-> "phase-" \o phase \o ".tsx", content |-> r.raw,
                phase |-> phase] >>

(***************************************************************************)
(* C17: pickLLMForJTBD depends on the lower-cased description only and      *)
(* applies the keyword groups in the order UI, copy, vision, analysis,      *)
(* default, the first match winning ("ui" together with "report" gives the  *)
(* UI rule); exactly the copy rule and the default declare a fallback, and  *)
(* they return the same model and the same fallback.                        *)
(***************************************************************************)
C17_PickLLMPrecedence ==
    Applied("pickLLMForJTBD") =>
        LET d == pure.description
            r == FirstMatch(d)
            c == pure.choice
        IN /\ c.provider = RuleProviders[r]
           /\ c.model = RuleModels[r]
           /\ (c.fallback # NoFallback) <=> (r \in {CopyRule, DefaultRule})
           /\ r \in {CopyRule, DefaultRule} =>
                /\ c.fallback = BudgetFallback
                /\ c.provider = RuleProviders[DefaultRule]
                /\ c.model = RuleModels[DefaultRule]
           /\ {"ui", "report"} \subseteq d.words
                => c.reason = "front-end code generation"
           /\ c = pickLLMForJTBD(Description(d.words, "lower"))

C17_Witness ==
    /\ Applied("pickLLMForJTBD")
    /\ pure.description.words = {"ui", "report", "email"}
    /\ pure.description.casing = "upper"
    /\ pure.choice.provider = "googleai"

(***************************************************************************)
(* C18: for the planning phase the parser returns exactly one file:         *)
(* project-structure.json holding the parsed value re-serialized with an    *)
(* indentation of two spaces when the response is valid JSON, otherwise     *)
(* planning-notes.txt holding the raw response.                             *)
(***************************************************************************)
C18_PlanningParser ==
    Applied("parsePlanningResponse") =>
        LET r == pure.response
            f == pure.files
        IN /\ Len(f) = 1
           /\ f[1].phase = pure.phase
           /\ IF r.valid
              THEN /\ f[1].path = "project-structure.json"
                   /\ f[1].content = JSONstringify(r.json, "  ", "")
              ELSE /\ f[1].path = "planning-notes.txt"
                   /\ f[1].content = r.raw
           /\ r.raw = "{\"files\":[]}" => f[1].content = "{\n  \"files\": []\n}"
           /\ r.raw = "[\"npm install\",null]"
                => f[1].content = "[\n  \"npm install\",\n  null\n]"

C18_Witness ==
    /\ Applied("parsePlanningResponse")
    /\ pure.response.raw = "[\"npm install\",null]"
    /\ pure.files[1].path = "project-structure.json"
    /\ pure.files[1].content # pure.response.raw

(***************************************************************************)
(* C19 (stated as claimed): for every well-formed JSON array of {path,      *)
(* content} entries parseCodeResponse returns exactly that array: same      *)
(* length and order, path and content unmodified, each entry tagged with    *)
(* the requested phase.                                                     *)
(***************************************************************************)
C19_RoundTrip ==
    (Applied("parseCodeResponse") /\ WellFormedEntries(pure.response)) =>
        /\ Len(pure.files) = Len(pure.response.json.v)
        /\ \A i \in DOMAIN pure.response.json.v :
             /\ pure.files[i].path = Get(pure.response.json.v[i], "path").v
             /\ pure.files[i].content = Get(pure.response.json.v[i], "content").v
             /\ pure.files[i].phase = pure.phase

(***************************************************************************)
(* C20: for a text phase other than planning the parser returns a file      *)
(* list for every response - an array element whose members cannot be read  *)
(* included - and when the response is no JSON, or JSON that is no array,   *)
(* the list is the single file named by the phase that holds the raw        *)
(* response verbatim.                                                       *)
(***************************************************************************)
C20_CodeParserFallback ==
    Applied("parseCodeResponse") =>
        LET r == pure.response IN
        /\ \A i \in DOMAIN pure.files : pure.files[i].phase = pure.phase
        /\ (~r.valid \/ r.json.t # "arr")
              => IsFallbackOf(pure.files, r, pure.phase)
        /\ (r.valid /\ r.json.t = "arr"
              /\ \E i \in DOMAIN r.json.v : r.json.v[i].t = "null")
              => IsFallbackOf(pure.files, r, pure.phase)
        /\ (r.valid /\ r.json.t = "arr"
              /\ \A i \in DOMAIN r.json.v : r.json.v[i].t # "null")
              => Len(pure.files) = Len(r.json.v)

C20_Witness ==
    /\ Applied("parseCodeResponse")
    /\ pure.response.raw = "{\"files\":[]}"
    /\ pure.phase = "core"
    /\ pure.files = << [path |-> "phase-core.tsx", content |-> "{\"files\":[]}",
                        phase |-> "core"] >>

(***************************************************************************)
(* SpecRuns: two sessions with different identifiers run concurrently,      *)
(* each one a full generation (generateApp), a template customization       *)
(* (TemplateCustomizer.customizeTemplate) or a custom-template generation   *)
(* (TemplateSelector.generateCustomTemplate, with generateFallbackApp).     *)
(* The sessions are followed through what they send to the progress store   *)
(* and to the bucket; the LLM calls of a phase write to neither.            *)
(***************************************************************************)
RunKeys == {"first", "second"}

RunKinds == {"generateApp", "customizeTemplate", "generateCustomTemplate"}

\* template-selector.ts line 256: the identifier generateFallbackApp passes.
FallbackAgentId == "fallback-agent"

\* env.AGENT_STATE.idFromName(name): the entry of the progress store.
idFromName(name) == name

StartOf(kind) ==
    CASE kind = "generateApp" -> "phases"
      [] kind = "customizeTemplate" -> "load"
      [] kind = "generateCustomTemplate" -> "llm"

\* A session at its entry point; target is the agentId argument that
\* customizeTemplate is called with.
NewRun(kind, id) ==
    [kind |-> kind, id |-> id, pc |-> StartOf(kind), target |-> id,
     phaseIdx |-> 1, build |-> NoValue, assetIdx |-> 1]

InitRuns ==
    /\ NoRun
    /\ pure = NoValue
    /\ \E k1 \in RunKinds, k2 \in RunKinds :
         runs = [r \in RunKeys |->
                   IF r = "first" THEN NewRun(k1, "agent-a")
                   ELSE NewRun(k2, "agent-b")]
    /\ progressWrites = {}
    /\ bucketWrites = {}
    /\ custom = NoValue
    /\ store = NoValue
    /\ sandbox = NoValue
    /\ sockets = NoValue

ProgressWrite(r, name, phase, status) ==
    [by |-> r, to |-> idFromName(name), phase |-> phase, status |-> status]

\* generateApp lines 56-79: the update of one phase, sent to the entry of
\* the session's agentId, then the phase.
SessionPhase(r) ==
    /\ runs[r].pc = "phases"
    /\ progressWrites' = progressWrites \cup
           {ProgressWrite(r, runs[r].id, phases[runs[r].phaseIdx], "generating")}
    /\ runs' = [runs EXCEPT ![r].phaseIdx = @ + 1,
                            ![r].pc = IF runs[r].phaseIdx = Len(phases)
                                      THEN "build" ELSE "phases"]
    /\ UNCHANGED <<runVars, pure, serviceVars, bucketWrites>>

\* generateApp lines 81-83.
SessionBuild(r) ==
    /\ runs[r].pc = "build"
    /\ \E exec \in executeBuildOutcomes :
         runs' = [runs EXCEPT ![r].build = buildApp("build_" \o runs[r].id, exec),
                              ![r].pc = "deploy"]
    /\ UNCHANGED <<runVars, pure, serviceVars, progressWrites, bucketWrites>>

\* Mutant of SessionStoreAsset: a put that fails is reported to the
\* progress store with the status "error".
SessionStoreAssetReportsError(r) ==
    /\ runs[r].pc = "deploy"
    /\ storesAssets(runs[r].build)
    /\ runs[r].assetIdx <= Len(runs[r].build.assets)
    /\ \E o \in FetchOutcomes :
         IF o = "resolved"
         THEN /\ bucketWrites' = bucketWrites \cup
                     {[by |-> r,
                       key |-> assetKey(runs[r].id,
                                        runs[r].build.assets[runs[r].assetIdx])]}
              /\ runs' = [runs EXCEPT ![r].assetIdx = @ + 1]
              /\ UNCHANGED progressWrites
         ELSE /\ runs' = [runs EXCEPT ![r].pc = "raised"]
              /\ progressWrites' = progressWrites \cup
                     {[by |-> r, to |-> idFromName(runs[r].id),
                       phase |-> "deploy", status |-> "error"]}
              /\ UNCHANGED bucketWrites
    /\ UNCHANGED <<runVars, pure, serviceVars>>

\* createPreviewAndDeploy lines 288-302: one put of the asset loop.
SessionStoreAsset(r) ==
    /\ runs[r].pc = "deploy"
    /\ storesAssets(runs[r].build)
    /\ runs[r].assetIdx <= Len(runs[r].build.assets)
    /\ \E o \in FetchOutcomes :
         IF o = "resolved"
         THEN /\ bucketWrites' = bucketWrites \cup
                     {[by |-> r,
                       key |-> assetKey(runs[r].id,
                                        runs[r].build.assets[runs[r].assetIdx])]}
              /\ runs' = [runs EXCEPT ![r].assetIdx = @ + 1]
         ELSE /\ runs' = [runs EXCEPT ![r].pc = "raised"]
              /\ UNCHANGED bucketWrites
    /\ UNCHANGED <<runVars, pure, serviceVars, progressWrites>>

\* generateApp lines 88-99: the "completed" update.
SessionComplete(r) ==
    /\ runs[r].pc = "deploy"
    /\ storesAssets(runs[r].build)
          => runs[r].assetIdx > Len(runs[r].build.assets)
    /\ progressWrites' = progressWrites \cup
           {ProgressWrite(r, runs[r].id, "complete", "completed")}
    /\ \E o \in FetchOutcomes :
         runs' = [runs EXCEPT ![r].pc = IF o = "resolved" THEN "returned"
                                        ELSE "raised"]
    /\ UNCHANGED <<runVars, pure, serviceVars, bucketWrites>>

\* customizeTemplate line 401: loadTemplateDefinition returns or throws.
SessionLoadTemplate(r) ==
    /\ runs[r].pc = "load"
    /\ \E loaded \in BOOLEAN :
         runs' = [runs EXCEPT ![r].pc = IF loaded THEN "analyzing" ELSE "raised"]
    /\ UNCHANGED <<runVars, pure, serviceVars, progressWrites, bucketWrites>>

\* customizeTemplate lines 403-412 and 435-443: the two updates, sent to the
\* entry of the agentId argument; between them the customization calls,
\* which may throw.  Nothing is caught.
SessionCustomizing(r) ==
    /\ runs[r].pc \in {"analyzing", "finalizing"}
    /\ progressWrites' = progressWrites \cup
           {ProgressWrite(r, runs[r].target, "customizing",
                          IF runs[r].pc = "analyzing" THEN "analyzing_requirements"
                          ELSE "finalizing_app")}
    /\ \E o \in FetchOutcomes, customized \in BOOLEAN :
         runs' = [runs EXCEPT ![r].pc =
                    IF o = "rejected" THEN "raised"
                    ELSE IF runs[r].pc = "finalizing" THEN "returned"
                    ELSE IF customized THEN "finalizing" ELSE "raised"]
    /\ UNCHANGED <<runVars, pure, serviceVars, bucketWrites>>

\* generateCustomTemplate lines 234-249: the LLM call; a response that does
\* not parse leads to generateFallbackApp, which calls customizeTemplate on
\* the template journal-app with the identifier of line 256.
SessionCustomTemplate(r) ==
    /\ runs[r].pc = "llm"
    /\ \/ runs' = [runs EXCEPT ![r].pc = "raised"]
       \/ \E reply \in LLMReplies("planning") :
            runs' = IF reply.valid
                    THEN [runs EXCEPT ![r].pc = "returned"]
                    ELSE [runs EXCEPT ![r].pc = "load",
                                      ![r].target = FallbackAgentId]
    /\ UNCHANGED <<runVars, pure, serviceVars, progressWrites, bucketWrites>>

NextRuns ==
    \E r \in RunKeys :
        \/ SessionPhase(r)
        \/ SessionBuild(r)
        \/ SessionStoreAsset(r)
        \/ SessionComplete(r)
        \/ SessionLoadTemplate(r)
        \/ SessionCustomizing(r)
        \/ SessionCustomTemplate(r)

SpecRuns == InitRuns /\ [][NextRuns]_vars

(***************************************************************************)
(* C15 (stated as claimed): every progress update made on behalf of a run   *)
(* is addressed to the entry keyed by the run's own session identifier, so  *)
(* runs with different identifiers never write the same entry.              *)
(***************************************************************************)
C15_UpdatesAddressedToOwnEntry ==
    /\ \A w \in progressWrites : w.to = idFromName(runs[w.by].id)
    /\ \A w1, w2 \in progressWrites : w1.by # w2.by => w1.to # w2.to

(***************************************************************************)
(* C16: every bucket write of a run goes to apps/{sessionId}/{assetPath}    *)
(* for the run's own identifier and an asset of its build, only after the   *)
(* build succeeded with assets; two runs with different identifiers never   *)
(* write the same key.                                                      *)
(***************************************************************************)
C16_ArtifactKeysPerSession ==
    /\ \A w \in bucketWrites :
         /\ runs[w.by].build # NoValue
         /\ runs[w.by].build.success
         /\ runs[w.by].build.hasAssets
         /\ \E i \in DOMAIN runs[w.by].build.assets :
              w.key = "apps/" \o runs[w.by].id \o "/"
                      \o runs[w.by].build.assets[i].path
    /\ \A w1, w2 \in bucketWrites : w1.by # w2.by => w1.key # w2.key
    /\ \A r \in RunKeys :
         (runs[r].build # NoValue /\ ~storesAssets(runs[r].build))
             => ~\E w \in bucketWrites : w.by = r

C16_Witness ==
    /\ \A r \in RunKeys :
         /\ runs[r].pc = "returned"
         /\ Cardinality({w \in bucketWrites : w.by = r}) = Len(StubAssets)
    /\ [by |-> "first", key |-> "apps/agent-a/index.html"] \in bucketWrites
    /\ [by |-> "second", key |-> "apps/agent-b/index.html"] \in bucketWrites

(***************************************************************************)
(* JavaScript numbers of the template matcher: NaN, or an exact fraction.   *)
(* The sums of the matcher are fractions of small denominators, for which   *)
(* the comparisons below agree with those of the floating-point values.     *)
(***************************************************************************)
NaN == [nan |-> TRUE, num |-> 0, den |-> 1]

Number(n, d) == [nan |-> FALSE, num |-> n, den |-> d]

\* m / n for a count m of a list of length n: 0 / 0 is NaN.
Divide(m, n) == IF n = 0 THEN NaN ELSE Number(m, n)

Times(a, k) == IF a.nan THEN NaN ELSE Number(a.num * k, a.den)

Plus(a, b) ==
    IF a.nan \/ b.nan THEN NaN
    ELSE Number(a.num * b.den + b.num * a.den, a.den * b.den)

\* a >= b, false when either is NaN.
GreaterEq(a, b) == ~a.nan /\ ~b.nan /\ a.num * b.den >= b.num * a.den

\* a > b, false when either is NaN.
Greater(a, b) == ~a.nan /\ ~b.nan /\ a.num * b.den > b.num * a.den

\* Math.min(a, b): NaN when either is NaN.
MathMin(a, b) ==
    IF a.nan \/ b.nan THEN NaN ELSE IF GreaterEq(a, b) THEN b ELSE a

(***************************************************************************)
(* Template selector (src/core/template-selector.ts): the definitions of    *)
(* the registry and the requirements of a user.                             *)
(***************************************************************************)
\* A template definition as YAML.parse returns it.  The name is given by
\* its two parts: words are the keywords that name.includes() finds, stem is
\* name.split('-')[0]; capabilities are the capabilities that are set.
Template(parts, capabilities, providers, framework, complexity) ==
    [name |-> parts[1] \o "-" \o parts[2], words |-> {parts[1], parts[2]},
     stem |-> parts[1], capabilities |-> capabilities,
     api_integrations |-> providers, framework |-> framework,
     complexity |-> complexity]

JournalApp ==
    Template(<<"journal", "app">>,
             {"file_upload", "data_storage", "workflow_management"},
             << [providers |-> {"openai"}] >>, "react", "simple")

JournalLite ==
    Template(<<"journal", "lite">>,
             {"file_upload", "data_storage", "workflow_management"},
             << [providers |-> {"openai"}] >>, "react", "simple")

IdeaBoard ==
    Template(<<"idea", "board">>, {"api_import", "export"},
             << [providers |-> {}] >>, "vite", "medium")

DashboardKit ==
    Template(<<"dashboard", "kit">>,
             {"data_visualization", "reporting", "webhook"},
             << [providers |-> {"openai", "anthropic"}] >>, "react", "complex")

BlankStarter == Template(<<"blank", "starter">>, {}, << >>, "react", "simple")

\* The definitions directory, in the order readdirSync lists it.
Catalog == <<BlankStarter, DashboardKit, IdeaBoard, JournalApp, JournalLite>>

Reverse(s) == [i \in 1..Len(s) |-> s[Len(s) + 1 - i]]

\* What getAvailableTemplates returns: the catalog, a part of it, the
\* catalog in the other order, or nothing when the directory cannot be read.
Registries ==
    { SubSeq(Catalog, 1, n) : n \in 0..Len(Catalog) } \cup {Reverse(Catalog)}

\* The job descriptions with the number of characters of each.
JobDescriptions ==
    { [jtbds |-> Description({}, "lower"), length |-> 18],
      [jtbds |-> Description({"track", "journal"}, "lower"), length |-> 24],
      [jtbds |-> Description({"journal"}, "upper"), length |-> 12],
      [jtbds |-> Description({"idea", "dashboard"}, "lower"), length |-> 31],
      [jtbds |-> Description({"manage"}, "lower"), length |-> 140] }

\* visual_style.favorite_app: absent, or the keywords it contains.
FavoriteApps ==
    { NoDescription, Description({"notion"}, "upper"),
      Description({"figma"}, "lower") }

ListsOver(alphabet, maxLen) ==
    UNION { [1..n -> alphabet] : n \in 0..maxLen }

UserRequirements ==
    { [jtbds |-> d.jtbds, jtbds_length |-> d.length, input_sources |-> i,
       outputs |-> o, api_keys_required |-> a, favorite_app |-> f] :
        d \in JobDescriptions,
        i \in ListsOver({"upload", "fax"}, MaxInputs),
        o \in ListsOver({"summary", "fax"}, MaxOutputs),
        a \in ListsOver({"OpenAI", "stripe"}, MaxApis),
        f \in FavoriteApps }

\* word.toLowerCase() for the words of the lists.
toLowerCaseWord(word) == IF word = "OpenAI" THEN "openai" ELSE word

(***************************************************************************)
(* calculateTemplateMatch and its helpers.                                  *)
(***************************************************************************)
inputMap ==
    [w \in {"gdrive", "dropbox", "notion", "web", "upload", "email", "other"} |->
        CASE w \in {"gdrive", "dropbox", "upload"} -> {"file_upload"}
          [] w = "web" -> {"url_import"}
          [] OTHER -> {"api_import"}]

outputMap ==
    [w \in {"summary", "doc", "json", "post", "slides", "audio", "video",
            "image", "trigger"} |->
        CASE w = "summary" -> {"data_storage", "reporting"}
          [] w = "post" -> {"api_import"}
          [] w = "trigger" -> {"webhook"}
          [] OTHER -> {"export"}]

\* map[word.toLowerCase()] || []
requiredCapabilities(map, word) ==
    IF toLowerCaseWord(word) \in DOMAIN map THEN map[toLowerCaseWord(word)]
    ELSE {}

templateSupportsInput(template, input) ==
    requiredCapabilities(inputMap, input) \cap template.capabilities # {}

templateSupportsOutput(template, output) ==
    requiredCapabilities(outputMap, output) \cap template.capabilities # {}

templateSupportsAPI(template, api) ==
    \E i \in DOMAIN template.api_integrations :
        toLowerCaseWord(api) \in template.api_integrations[i].providers

\* requirements.input_sources.filter(...).length
inputMatches(template, requirements) ==
    Cardinality({i \in DOMAIN requirements.input_sources :
                    templateSupportsInput(template, requirements.input_sources[i])})

outputMatches(template, requirements) ==
    Cardinality({i \in DOMAIN requirements.outputs :
                    templateSupportsOutput(template, requirements.outputs[i])})

apiMatches(template, requirements) ==
    Cardinality({i \in DOMAIN requirements.api_keys_required :
                    templateSupportsAPI(template,
                                        requirements.api_keys_required[i])})

assessJTBDComplexity(requirements) ==
    LET factors == << Len(requirements.input_sources) > 2,
                      Len(requirements.outputs) > 2,
                      Len(requirements.api_keys_required) > 1,
                      requirements.jtbds_length > 100 >>
        complexityScore == Cardinality({i \in DOMAIN factors : factors[i]})
    IN IF complexityScore <= 1 THEN "simple"
       ELSE IF complexityScore <= 3 THEN "medium"
       ELSE "complex"

\* Mutant of keywordScore: every matching rule adds its points.
keywordScoreAccumulates(template, requirements) ==
    LET jtbd == toLowerCase(requirements.jtbds) IN
    (IF includes(jtbd, "journal") /\ "journal" \in template.words THEN 30 ELSE 0)
    + (IF includes(jtbd, "idea") /\ "idea" \in template.words THEN 30 ELSE 0)
    + (IF includes(jtbd, "dashboard") /\ "dashboard" \in template.words
       THEN 30 ELSE 0)
    + (IF includes(jtbd, "track")
          /\ "workflow_management" \in template.capabilities THEN 20 ELSE 0)
    + (IF includes(jtbd, "manage")
          /\ "workflow_management" \in template.capabilities THEN 20 ELSE 0)

\* The if / else-if chain of the keyword rule: what it adds to score.
keywordScore(template, requirements) ==
    LET jtbd == toLowerCase(requirements.jtbds) IN
    IF includes(jtbd, "journal") /\ "journal" \in template.words THEN 30
    ELSE IF includes(jtbd, "idea") /\ "idea" \in template.words THEN 30
    ELSE IF includes(jtbd, "dashboard") /\ "dashboard" \in template.words THEN 30
    ELSE IF includes(jtbd, "track")
            /\ "workflow_management" \in template.capabilities THEN 20
    ELSE IF includes(jtbd, "manage")
            /\ "workflow_management" \in template.capabilities THEN 20
    ELSE 0

favoriteScore(template, requirements) ==
    IF requirements.favorite_app.casing = "absent" THEN 0
    ELSE LET favorite == toLowerCase(requirements.favorite_app) IN
         IF includes(favorite, "notion") /\ template.framework = "react" THEN 10
         ELSE IF includes(favorite, "figma")
                 /\ "data_visualization" \in template.capabilities THEN 10
         ELSE 0

\* Mutant of scoreRules: the weight of the favorite-app rule is counted only
\* when a favorite app is given.
scoreRulesWhenPresent(template, requirements) ==
    << [added |-> Number(keywordScore(template, requirements), 1), weight |-> 30],
       [added |-> Times(Divide(inputMatches(template, requirements),
                               Len(requirements.input_sources)), 20),
        weight |-> 20],
       [added |-> Times(Divide(outputMatches(template, requirements),
                               Len(requirements.outputs)), 20),
        weight |-> 20],
       [added |-> Times(Divide(apiMatches(template, requirements),
                               Len(requirements.api_keys_required)), 15),
        weight |-> 15],
       [added |-> Number(favoriteScore(template, requirements), 1),
        weight |-> IF requirements.favorite_app.casing = "absent" THEN 0 ELSE 10],
       [added |-> Number(IF assessJTBDComplexity(requirements)
                            = template.complexity THEN 5 ELSE 0, 1),
        weight |-> 5] >>

\* The six rules in order: what each adds to score and to maxScore.
scoreRules(template, requirements) ==
    << [added |-> Number(keywordScore(template, requirements), 1), weight |-> 30],
       [added |-> Times(Divide(inputMatches(template, requirements),
                               Len(requirements.input_sources)), 20),
        weight |-> 20],
       [added |-> Times(Divide(outputMatches(template, requirements),
                               Len(requirements.outputs)), 20),
        weight |-> 20],
       [added |-> Times(Divide(apiMatches(template, requirements),
                               Len(requirements.api_keys_required)), 15),
        weight |-> 15],
       [added |-> Number(favoriteScore(template, requirements), 1), weight |-> 10],
       [added |-> Number(IF assessJTBDComplexity(requirements)
                            = template.complexity THEN 5 ELSE 0, 1),
        weight |-> 5] >>

RECURSIVE SumAdded(_)
SumAdded(rules) ==
    IF Len(rules) = 0 THEN Number(0, 1)
    ELSE Plus(SumAdded(SubSeq(rules, 1, Len(rules) - 1)), rules[Len(rules)].added)

RECURSIVE SumWeights(_)
SumWeights(rules) ==
    IF Len(rules) = 0 THEN 0
    ELSE SumWeights(SubSeq(rules, 1, Len(rules) - 1)) + rules[Len(rules)].weight

\* score / maxScore
Ratio(score, maxScore) ==
    IF score.nan THEN NaN ELSE Number(score.num, score.den * maxScore)

\* Math.min(score / maxScore, 1.0)
calculateTemplateMatch(template, requirements) ==
    LET rules == scoreRules(template, requirements) IN
    MathMin(Ratio(SumAdded(rules), SumWeights(rules)), Number(1, 1))

(***************************************************************************)
(* selectTemplateForJTBD.                                                   *)
(***************************************************************************)
\* reasons.join(', ')
RECURSIVE JoinReasons(_)
JoinReasons(reasons) ==
    IF Len(reasons) = 1 THEN reasons[1]
    ELSE reasons[1] \o ", " \o JoinReasons(Tail(reasons))

generateMatchReasoning(template, requirements) ==
    LET inputCount == inputMatches(template, requirements)
        outputCount == outputMatches(template, requirements)
        reasons ==
            (IF includes(toLowerCase(requirements.jtbds), template.stem)
             THEN << "JTBD mentions \"" \o template.stem \o "\" functionality" >>
             ELSE << >>)
            \o (IF inputCount > 0
                THEN << "Supports " \o ToString(inputCount)
                        \o " of your input sources" >>
                ELSE << >>)
            \o (IF outputCount > 0
                THEN << "Supports " \o ToString(outputCount)
                        \o " of your output types" >>
                ELSE << >>)
    IN IF Len(reasons) > 0 THEN JoinReasons(reasons)
       ELSE "General purpose template"

\* The callback of availableTemplates.map.
templateMatch(template, requirements) ==
    [templateName |-> template.name,
     confidence |-> calculateTemplateMatch(template, requirements),
     reasoning |-> generateMatchReasoning(template, requirements),
     capabilities |-> template.capabilities]

\* matches.sort((a, b) => b.confidence - a.confidence): a stable sort; a
\* comparison that yields NaN counts as "equal".  A match moves in front of
\* the matches whose confidence is less than its own.
RECURSIVE insertMatch(_, _)
insertMatch(sorted, m) ==
    IF Len(sorted) = 0 THEN <<m>>
    ELSE IF Greater(m.confidence, sorted[Len(sorted)].confidence)
    THEN insertMatch(SubSeq(sorted, 1, Len(sorted) - 1), m)
         \o <<sorted[Len(sorted)]>>
    ELSE sorted \o <<m>>

RECURSIVE sortByConfidence(_)
sortByConfidence(matches) ==
    IF Len(matches) = 0 THEN << >>
    ELSE insertMatch(sortByConfidence(SubSeq(matches, 1, Len(matches) - 1)),
                     matches[Len(matches)])

\* array.slice(start, end)
slice(array, start, end) ==
    SubSeq(array, start + 1, IF end < Len(array) THEN end ELSE Len(array))

\* The confidence a template must reach to be selected.
Threshold == Number(7, 10)

\* Mutant of alternativesOfSelection: the best match is listed as well.
alternativesWithBest(matches) == slice(matches, 0, 3)

\* matches.slice(1, 4)
alternativesOfSelection(matches) == slice(matches, 1, 4)

\* The decision; raised says that reading bestMatch.confidence threw, which
\* it does when the registry is empty.  Members that a decision does not
\* have are written "" and FALSE.  The text of the fallback reasoning is
\* represented by the confidence it quotes.
selectTemplateForJTBD(availableTemplates, requirements) ==
    LET matches == sortByConfidence(
                       [i \in 1..Len(availableTemplates) |->
                           templateMatch(availableTemplates[i], requirements)])
    IN IF Len(matches) = 0
       THEN [raised |-> TRUE, selectedTemplate |-> "",
             fallbackGeneration |-> FALSE, reasoning |-> "",
             bestConfidence |-> NaN, alternatives |-> << >>]
       ELSE IF GreaterEq(matches[1].confidence, Threshold)
       THEN [raised |-> FALSE, selectedTemplate |-> matches[1].templateName,
             fallbackGeneration |-> FALSE, reasoning |-> matches[1].reasoning,
             bestConfidence |-> matches[1].confidence,
             alternatives |-> alternativesOfSelection(matches)]
       ELSE [raised |-> FALSE, selectedTemplate |-> "",
             fallbackGeneration |-> TRUE,
             reasoning |-> "No template matches well enough",
             bestConfidence |-> matches[1].confidence,
             alternatives |-> slice(matches, 0, 3)]

(***************************************************************************)
(* SpecCalls: one call of the template matcher, of the template selector,   *)
(* of the package patcher or of the build adapter on arguments drawn from   *)
(* bounded sets.                                                            *)
(***************************************************************************)
CallInput(fn, args) == [fn |-> fn, args |-> args, done |-> FALSE, out |-> NoValue]

MatcherInputs ==
    { CallInput("calculateTemplateMatch", [template |-> Catalog[t], requirements |-> r]) :
        t \in DOMAIN Catalog, r \in UserRequirements }

SelectorInputs ==
    { CallInput("selectTemplateForJTBD", [registry |-> g, requirements |-> r]) :
        g \in Registries, r \in UserRequirements }

ApplyCalculateTemplateMatch ==
    /\ pure # NoValue
    /\ pure.fn = "calculateTemplateMatch" /\ ~pure.done
    /\ pure' = [pure EXCEPT
                  !.done = TRUE,
                  !.out = [rules |-> scoreRules(pure.args.template,
                                                pure.args.requirements),
                           confidence |-> calculateTemplateMatch(
                               pure.args.template, pure.args.requirements)]]
    /\ UNCHANGED <<runVars, sessionVars, serviceVars>>

ApplySelectTemplate ==
    /\ pure # NoValue
    /\ pure.fn = "selectTemplateForJTBD" /\ ~pure.done
    /\ pure' = [pure EXCEPT
                  !.done = TRUE,
                  !.out = selectTemplateForJTBD(pure.args.registry,
                                                pure.args.requirements)]
    /\ UNCHANGED <<runVars, sessionVars, serviceVars>>

(***************************************************************************)
(* applyPackagePatches.  A dependency map is a function from package names  *)
(* to version ranges; a missing map (undefined) is the empty function.      *)
(***************************************************************************)
\* { ...a, ...b }
Spread(a, b) ==
    [k \in DOMAIN a \cup DOMAIN b |-> IF k \in DOMAIN b THEN b[k] ELSE a[k]]

NoDependencies == [k \in {} |-> ""]

OpenAISdk == [k \in {"openai"} |-> "^4.0.0"]

AnthropicSdk == [k \in {"@anthropic-ai/sdk"} |-> "^0.17.0"]

\* array.includes(tag): strict equality with one of the elements.
includesTag(tags, tag) == \E i \in DOMAIN tags : tags[i] = tag

\* Mutant of applyPackagePatches: the patch of the template definition is
\* updated in place instead of a copy of it.
applyPackagePatchesInPlace(templateDef, api_keys_required) ==
    LET withOpenAI ==
            IF includesTag(api_keys_required, "openai")
            THEN [templateDef.package_patches EXCEPT
                    !.dependencies = Spread(@, OpenAISdk)]
            ELSE templateDef.package_patches
        withAnthropic ==
            IF includesTag(api_keys_required, "anthropic")
            THEN [withOpenAI EXCEPT !.dependencies = Spread(@, AnthropicSdk)]
            ELSE withOpenAI
    IN [patches |-> withAnthropic,
        templateDef |-> [templateDef EXCEPT !.package_patches = withAnthropic]]

\* The value returned, and the template definition as the call leaves it.
applyPackagePatches(templateDef, api_keys_required) ==
    LET patches == templateDef.package_patches
        withOpenAI ==
            IF includesTag(api_keys_required, "openai")
            THEN [patches EXCEPT !.dependencies = Spread(@, OpenAISdk)]
            ELSE patches
        withAnthropic ==
            IF includesTag(api_keys_required, "anthropic")
            THEN [withOpenAI EXCEPT !.dependencies = Spread(@, AnthropicSdk)]
            ELSE withOpenAI
    IN [patches |-> withAnthropic, templateDef |-> templateDef]

\* Declared patches: an optional validation library, and optionally an
\* OpenAI SDK of an older or of the pinned version.
DeclaredDependencies ==
    { Spread(z, o) :
        z \in {NoDependencies, [k \in {"zod"} |-> "^3.22.0"]},
        o \in {NoDependencies, [k \in {"openai"} |-> "^3.3.0"], OpenAISdk} }

PatchedTemplates ==
    { [name |-> "journal-app",
       package_patches |-> [dependencies |-> d,
                            devDependencies |-> [k \in {"vitest"} |-> "^1.0.0"]]] :
        d \in DeclaredDependencies }

ApiTags == {"openai", "anthropic", "OpenAI", "stripe"}

PatchInputs ==
    { CallInput("applyPackagePatches", [templateDef |-> t, api_keys_required |-> tags]) :
        t \in PatchedTemplates, tags \in ListsOver(ApiTags, MaxApis) }

ApplyPackagePatches ==
    /\ pure # NoValue
    /\ pure.fn = "applyPackagePatches" /\ ~pure.done
    /\ pure' = [pure EXCEPT
                  !.done = TRUE,
                  !.out = applyPackagePatches(pure.args.templateDef,
                                              pure.args.api_keys_required)]
    /\ UNCHANGED <<runVars, sessionVars, serviceVars>>

(***************************************************************************)
(* buildApp on its own.  Besides executeBuild, the try block can throw in   *)
(* generatePackageJson (a request that is null) and in the spread of        *)
(* request.files (files that are not iterable).                             *)
(***************************************************************************)
Thrown(message) ==
    [threw |-> TRUE, message |-> message, success |-> FALSE,
     hasAssets |-> FALSE, assets |-> << >>, errors |-> << >>,
     warnings |-> << >>]

tryOutcomes ==
    executeBuildOutcomes
    \cup { Thrown("Cannot read properties of null (reading 'framework')"),
           Thrown("request.files is not iterable") }

BuildIds == {"build_1_a", "build_2_b"}

BuildInputs ==
    { CallInput("buildApp", [buildId |-> id, exec |-> e]) :
        id \in BuildIds, e \in tryOutcomes }

ApplyBuildApp ==
    /\ pure # NoValue
    /\ pure.fn = "buildApp" /\ ~pure.done
    /\ pure' = [pure EXCEPT
                  !.done = TRUE,
                  !.out = buildApp(pure.args.buildId, pure.args.exec)]
    /\ UNCHANGED <<runVars, sessionVars, serviceVars>>

InitCalls ==
    /\ NoRun
    /\ pure \in MatcherInputs \cup SelectorInputs \cup PatchInputs \cup BuildInputs
    /\ runs = << >>
    /\ progressWrites = {}
    /\ bucketWrites = {}
    /\ custom = NoValue
    /\ store = NoValue
    /\ sandbox = NoValue
    /\ sockets = NoValue

NextCalls ==
    \/ ApplyCalculateTemplateMatch
    \/ ApplySelectTemplate
    \/ ApplyPackagePatches
    \/ ApplyBuildApp

SpecCalls == InitCalls /\ [][NextCalls]_vars

\* A call of fn has returned.
Called(fn) == pure # NoValue /\ pure.fn = fn /\ pure.done

(***************************************************************************)
(* Vocabulary of the properties of the matcher and the selector.            *)
(***************************************************************************)
InUnitInterval(c) == GreaterEq(c, Number(0, 1)) /\ GreaterEq(Number(1, 1), c)

SameNumber(a, b) == GreaterEq(a, b) /\ GreaterEq(b, a)

\* The matches of a selector call in registry order, before the sort.
MatchesOf(args) ==
    [i \in 1..Len(args.registry) |->
        templateMatch(args.registry[i], args.requirements)]

NamesOf(matches) == { matches[i].templateName : i \in DOMAIN matches }

Descending(matches) ==
    \A i, j \in DOMAIN matches :
        i < j => ~Greater(matches[j].confidence, matches[i].confidence)

Min(a, b) == IF a < b THEN a ELSE b

\* C21: for every template and all requirements, empty lists included, the
\* confidence of the matcher is a number between 0 and 1.
C21_ConfidenceInUnitInterval ==
    Called("calculateTemplateMatch") => InUnitInterval(pure.out.confidence)

\* C30: the weights of the six rules always add up to 100; without a
\* favorite app the confidence is at most 0.9; and a template that gets
\* nothing from the keyword rule reaches 0.7 only when each of the other
\* five rules adds its full weight.
C30_DenominatorIsHundred ==
    Called("calculateTemplateMatch") =>
        LET rules == pure.out.rules
            confidence == pure.out.confidence
        IN /\ SumWeights(rules) = 100
           /\ pure.args.requirements.favorite_app.casing = "absent"
                 => ~Greater(confidence, Number(9, 10))
           /\ (SameNumber(rules[1].added, Number(0, 1))
               /\ GreaterEq(confidence, Threshold))
                 => \A i \in 2..Len(rules) :
                       SameNumber(rules[i].added, Number(rules[i].weight, 1))

\* A template without a keyword match reaches the threshold.
C30_Witness ==
    /\ Called("calculateTemplateMatch")
    /\ SameNumber(pure.out.rules[1].added, Number(0, 1))
    /\ GreaterEq(pure.out.confidence, Threshold)

\* C22: the selector returns one of two decisions: the highest-scoring
\* template, the first such in registry order, when its confidence is at
\* least 0.7, and the fallback otherwise, which it returns only when no
\* template reaches 0.7.
C22_SelectionDecision ==
    Called("selectTemplateForJTBD") =>
        LET matches == MatchesOf(pure.args)
            out == pure.out
        IN /\ ~out.raised
           /\ (out.selectedTemplate # "") # out.fallbackGeneration
           /\ out.fallbackGeneration =>
                 \A i \in DOMAIN matches :
                    ~GreaterEq(matches[i].confidence, Threshold)
           /\ out.selectedTemplate # "" =>
                 \E i \in DOMAIN matches :
                    /\ matches[i].templateName = out.selectedTemplate
                    /\ GreaterEq(matches[i].confidence, Threshold)
                    /\ \A j \in DOMAIN matches :
                          ~Greater(matches[j].confidence, matches[i].confidence)
                    /\ \A j \in 1..(i - 1) :
                          Greater(matches[i].confidence, matches[j].confidence)

\* C23: when the selector returns a selection, the alternatives are the
\* next-best templates, at most three, in descending confidence and without
\* the selected one; when it returns the fallback, they are the three
\* highest-scoring templates (all of them when there are fewer), the best
\* one first.
C23_Alternatives ==
    (Called("selectTemplateForJTBD") /\ ~pure.out.raised) =>
        LET matches == MatchesOf(pure.args)
            out == pure.out
            alternatives == out.alternatives
            listed == NamesOf(alternatives)
                        \cup (IF out.fallbackGeneration THEN {}
                              ELSE {out.selectedTemplate})
        IN /\ \A i \in DOMAIN alternatives :
                 \E j \in DOMAIN matches : alternatives[i] = matches[j]
           /\ Cardinality(NamesOf(alternatives)) = Len(alternatives)
           /\ Descending(alternatives)
           /\ \A i \in DOMAIN matches :
                 matches[i].templateName \notin listed =>
                    \A j \in DOMAIN alternatives :
                       ~Greater(matches[i].confidence, alternatives[j].confidence)
           /\ out.selectedTemplate # "" =>
                 /\ Len(alternatives) = Min(3, Len(matches) - 1)
                 /\ out.selectedTemplate \notin NamesOf(alternatives)
                 /\ \A j \in DOMAIN alternatives :
                       ~Greater(alternatives[j].confidence, out.bestConfidence)
           /\ out.fallbackGeneration =>
                 /\ Len(alternatives) = Min(3, Len(matches))
                 /\ alternatives[1].confidence = out.bestConfidence
                 /\ \A i \in DOMAIN matches :
                       ~Greater(matches[i].confidence, alternatives[1].confidence)

\* A selection with three alternatives of which the first scores more than
\* the last.
C23_Witness ==
    /\ Called("selectTemplateForJTBD")
    /\ pure.out.selectedTemplate # ""
    /\ Len(pure.out.alternatives) = 3
    /\ Greater(pure.out.alternatives[1].confidence,
               pure.out.alternatives[3].confidence)

\* C24: for the job description "track my journal entries" with the one
\* input source "upload" and the template journal-app (capability
\* file_upload) in the registry, the confidence of journal-app is at least
\* 0.7 and journal-app is the selected template.
C24_JournalScenario ==
    (/\ Called("selectTemplateForJTBD")
     /\ pure.args.requirements.jtbds = Description({"track", "journal"}, "lower")
     /\ pure.args.requirements.input_sources = <<"upload">>
     /\ pure.args.requirements.outputs = << >>
     /\ pure.args.requirements.api_keys_required = << >>
     /\ pure.args.registry = SubSeq(Catalog, 1, 4)) =>
        /\ GreaterEq(calculateTemplateMatch(JournalApp, pure.args.requirements),
                     Threshold)
        /\ pure.out.selectedTemplate = "journal-app"

(***************************************************************************)
(* Properties of the package patcher and of the build adapter.              *)
(***************************************************************************)
\* A dependency map as the set of its (name, version) entries.
Entries(deps) == { <<k, deps[k]>> : k \in DOMAIN deps }

\* The SDK entries the tags call for.
PinnedFor(tags) ==
    Spread(IF includesTag(tags, "openai") THEN OpenAISdk ELSE NoDependencies,
           IF includesTag(tags, "anthropic") THEN AnthropicSdk
           ELSE NoDependencies)

\* C27 as stated: the dependencies of the result are the declared
\* dependencies, each with its declared version, plus the pinned OpenAI SDK
\* exactly when the tags include "openai" and the pinned Anthropic SDK
\* exactly when they include "anthropic"; the rest of the patch and the
\* template definition are unchanged.
C27_AdditiveMerge ==
    Called("applyPackagePatches") =>
        LET declared == pure.args.templateDef.package_patches
            tags == pure.args.api_keys_required
        IN /\ Entries(pure.out.patches.dependencies)
                = Entries(declared.dependencies) \cup Entries(PinnedFor(tags))
           /\ pure.out.patches.devDependencies = declared.devDependencies
           /\ pure.out.templateDef = pure.args.templateDef

\* C27 amended: the result has the declared dependencies and the pinned SDKs
\* the tags call for and no other; a declared dependency keeps its declared
\* version unless it is an SDK that the tags call for, which gets the pinned
\* version; the rest of the patch and the template definition are unchanged.
C27_PinnedMerge ==
    Called("applyPackagePatches") =>
        LET declared == pure.args.templateDef.package_patches
            tags == pure.args.api_keys_required
            pinned == PinnedFor(tags)
            patched == pure.out.patches.dependencies
        IN /\ DOMAIN patched = DOMAIN declared.dependencies \cup DOMAIN pinned
           /\ \A k \in DOMAIN pinned : patched[k] = pinned[k]
           /\ \A k \in DOMAIN declared.dependencies \ DOMAIN pinned :
                 patched[k] = declared.dependencies[k]
           /\ DOMAIN pinned \subseteq {"openai", "@anthropic-ai/sdk"}
           /\ "openai" \in DOMAIN pinned <=> includesTag(tags, "openai")
           /\ "@anthropic-ai/sdk" \in DOMAIN pinned
                 <=> includesTag(tags, "anthropic")
           /\ pure.out.patches.devDependencies = declared.devDependencies
           /\ pure.out.templateDef = pure.args.templateDef

\* A template that declares an older OpenAI SDK is patched for the tags
\* openai and stripe.
C27_Witness ==
    /\ Called("applyPackagePatches")
    /\ pure.args.api_keys_required = <<"openai", "stripe">>
    /\ "openai" \in DOMAIN pure.args.templateDef.package_patches.dependencies
    /\ pure.args.templateDef.package_patches.dependencies["openai"] = "^3.3.0"
    /\ pure.out.patches.dependencies["openai"] = "^4.0.0"

\* C29: buildApp returns a result for every way its try block ends; when
\* the try block throws, in generatePackageJson, in the assembly of the
\* files or in executeBuild, the result has success false, a non-empty list
\* of errors and the buildId generated for the call.
C29_BuildNeverRaises ==
    Called("buildApp") =>
        /\ pure.out.buildId = pure.args.buildId
        /\ pure.args.exec.threw =>
              /\ pure.out.success = FALSE
              /\ Len(pure.out.errors) > 0
              /\ pure.out.errors[1] = "Build failed: " \o pure.args.exec.message
        /\ ~pure.args.exec.threw => pure.out.success = pure.args.exec.success

\* The spread of request.files has thrown and buildApp has returned.
C29_Witness ==
    /\ Called("buildApp")
    /\ pure.args.exec.threw
    /\ pure.args.exec.message = "request.files is not iterable"
    /\ pure.out.success = FALSE
    /\ pure.out.buildId = "build_2_b"

(***************************************************************************)
(* TemplateCustomizer.customizeTemplate (src/core/template-customizer.ts).  *)
(* custom is one call of it: its arguments, the position it has reached,    *)
(* the progress updates it has posted, the model calls it has made and      *)
(* what it returned or raised.                                              *)
(***************************************************************************)
Placeholder == "/* UI customization failed */"

\* The template definitions that exist on disk, by name.
TemplateDefinition(name) ==
    [name |-> name, framework |-> "react",
     package_patches |->
        [dependencies |-> [k \in {"zod"} |-> "^3.22.0"],
         devDependencies |-> [k \in {"vitest"} |-> "^1.0.0"]]]

DefinedTemplates == {"journal-app", "dashboard-kit"}

\* How loadTemplateDefinition ends for a name: with the parsed definition,
\* or with the error it rethrows when the file is missing or is not YAML.
loadTemplateDefinitionOutcomes(templateName) ==
    IF templateName \in DefinedTemplates
    THEN { [threw |-> FALSE, templateDef |-> TemplateDefinition(templateName)],
           [threw |-> TRUE, templateDef |-> NoValue] }
    ELSE { [threw |-> TRUE, templateDef |-> NoValue] }

CustomPost(agent, progress, status) ==
    [agentId |-> agent, path |-> "/progress", phase |-> "customizing",
     progress |-> progress, status |-> status]

\* Mutant of startCustomization: the first progress update is posted before
\* the definition is loaded.
startCustomizationPostFirst(call, loaded) ==
    IF loaded.threw
    THEN [call EXCEPT !.pc = "raised", !.raisedBy = "loadTemplateDefinition",
                      !.posts = <<CustomPost(call.agentId, 10,
                                             "analyzing_requirements")>>]
    ELSE [call EXCEPT !.pc = "ui", !.templateDef = loaded.templateDef,
                      !.posts = <<CustomPost(call.agentId, 10,
                                             "analyzing_requirements")>>]

\* customizeTemplate up to its first await: the definition is loaded, which
\* may raise, and then the first progress update is posted.
startCustomization(call, loaded) ==
    IF loaded.threw
    THEN [call EXCEPT !.pc = "raised", !.raisedBy = "loadTemplateDefinition"]
    ELSE [call EXCEPT !.pc = "ui", !.templateDef = loaded.templateDef,
                      !.posts = <<CustomPost(call.agentId, 10,
                                             "analyzing_requirements")>>]

\* How generateUIWithGoogle ends: it throws for a missing key and for an
\* answer that is not 2xx, and otherwise returns JSON.parse of the text, or
\* { files: [] } when the text does not parse.
generateUIOutcomes ==
    { [threw |-> TRUE, error |-> "Missing GOOGLE_AI_STUDIO_API_KEY", value |-> Undefined],
      [threw |-> TRUE, error |-> "Google UI gen failed: 500", value |-> Undefined] }
    \cup { [threw |-> FALSE, error |-> "",
            value |-> IF reply.valid THEN reply.json
                      ELSE JObj(<< <<"files", JArr(<< >>)>> >>)] :
             reply \in UIReplies \cup {JSONText(JNull, "")} }

\* uiResult.files?.[0]?.content || "/* UI customization failed */"; reading
\* files of null throws.
uiContent(uiResult) ==
    IF uiResult.t = "null"
    THEN [threw |-> TRUE, content |-> Undefined]
    ELSE LET files == Get(uiResult, "files")
             first == IF files.t = "arr" /\ Len(files.v) > 0 THEN files.v[1]
                      ELSE Undefined
             content == IF first.t \in {"null", "undefined"} THEN Undefined
                        ELSE Get(first, "content")
         IN [threw |-> FALSE,
             content |-> IF Truthy(content) THEN content ELSE JStr(Placeholder)]

\* generateUICustomization has no try: what generateUIWithGoogle throws, it
\* throws.
generateUICustomization(ui) ==
    IF ui.threw THEN [threw |-> TRUE, content |-> Undefined]
    ELSE uiContent(ui.value)

\* llm_models.primary of the requirements, "" when none is given.
PrimaryModels == {"", "gpt-4o", "claude-3.7-sonnet", "llama-3"}

selectLLMForCustomization(primary) ==
    LET primaryModel == IF primary = "" THEN "gemini-2.0-pro-exp" ELSE primary
    IN [provider |-> CASE primaryModel = "gemini-2.0-pro-exp" -> "googleai"
                       [] primaryModel = "claude-3.7-sonnet" -> "anthropic"
                       [] primaryModel = "gpt-4o" -> "openai"
                       [] OTHER -> "googleai",
        model |-> primaryModel, reason |-> "user_selected_model"]

\* How callLLM ends for the functionality prompt.
callLLMOutcomes ==
    { [threw |-> TRUE, text |-> ""],
      [threw |-> FALSE, text |-> "export function useEntries() {}"] }

generateFinalAppStructure(templateDef, uiCustomization, packagePatches) ==
    [name |-> templateDef.name, framework |-> templateDef.framework,
     appTsx |-> uiCustomization,
     dependencies |-> Spread([k \in {"react", "react-dom"} |-> "^18.2.0"],
                             packagePatches.dependencies),
     template |-> templateDef.name, customized |-> TRUE]

CustomCalls ==
    { [templateName |-> n, agentId |-> "agent-a", primary |-> m,
       api_keys_required |-> tags, pc |-> "start", raisedBy |-> "",
       templateDef |-> NoValue, posts |-> << >>, llmCalls |-> << >>,
       uiCustomization |-> Undefined, finalApp |-> NoValue] :
        n \in DefinedTemplates \cup {"no-such-template"},
        m \in PrimaryModels,
        tags \in {<< >>, <<"openai">>} }

InitCustomize ==
    /\ NoRun
    /\ pure = NoValue
    /\ runs = << >>
    /\ progressWrites = {}
    /\ bucketWrites = {}
    /\ custom \in CustomCalls
    /\ store = NoValue
    /\ sandbox = NoValue
    /\ sockets = NoValue

CustomVarsUnchanged ==
    UNCHANGED <<runVars, pure, sessionVars, store, registryVars>>

\* await agentStub.fetch(...): a fetch that rejects raises to the caller.
awaitPost(call, outcome) ==
    IF call.pc = "raised" \/ outcome = "resolved" THEN call
    ELSE [call EXCEPT !.pc = "raised", !.raisedBy = "agentStub.fetch"]

\* Lines 401-412.
CustomStart ==
    /\ custom # NoValue /\ custom.pc = "start"
    /\ \E loaded \in loadTemplateDefinitionOutcomes(custom.templateName),
          o \in FetchOutcomes :
          custom' = awaitPost(startCustomization(custom, loaded), o)
    /\ CustomVarsUnchanged

\* Mutant of CustomUI: the second update is posted as soon as the UI
\* customization has returned.
CustomUIPostsFinal ==
    /\ custom # NoValue /\ custom.pc = "ui"
    /\ \E ui \in generateUIOutcomes :
          LET made == [fn |-> "generateUIWithGoogle", provider |-> "googleai",
                       model |-> UIModel, threw |-> ui.threw]
              got == generateUICustomization(ui)
          IN custom' =
               IF got.threw
               THEN [custom EXCEPT !.pc = "raised",
                                   !.raisedBy = "generateUICustomization",
                                   !.llmCalls = Append(@, made)]
               ELSE [custom EXCEPT !.pc = "functionality",
                                   !.uiCustomization = got.content,
                                   !.llmCalls = Append(@, made),
                                   !.posts = Append(@, CustomPost(custom.agentId, 90,
                                                                  "finalizing_app"))]
    /\ CustomVarsUnchanged

\* Lines 415-418: the variables are substituted and the UI is generated.
CustomUI ==
    /\ custom # NoValue /\ custom.pc = "ui"
    /\ \E ui \in generateUIOutcomes :
          LET made == [fn |-> "generateUIWithGoogle", provider |-> "googleai",
                       model |-> UIModel, threw |-> ui.threw]
              got == generateUICustomization(ui)
          IN custom' =
               IF got.threw
               THEN [custom EXCEPT !.pc = "raised",
                                   !.raisedBy = "generateUICustomization",
                                   !.llmCalls = Append(@, made)]
               ELSE [custom EXCEPT !.pc = "functionality",
                                   !.uiCustomization = got.content,
                                   !.llmCalls = Append(@, made)]
    /\ CustomVarsUnchanged

\* Lines 421-443: the functionality is generated, the package patches are
\* applied, the app is put together and the second update is posted.
CustomFunctionality ==
    /\ custom # NoValue /\ custom.pc = "functionality"
    /\ \E llm \in callLLMOutcomes, o \in FetchOutcomes :
          LET choice == selectLLMForCustomization(custom.primary)
              made == [fn |-> "callLLM", provider |-> choice.provider,
                       model |-> choice.model, threw |-> llm.threw]
              packagePatches ==
                  applyPackagePatches(custom.templateDef,
                                      custom.api_keys_required).patches
          IN custom' =
               IF llm.threw
               THEN [custom EXCEPT !.pc = "raised",
                                   !.raisedBy = "generateFunctionalityCustomization",
                                   !.llmCalls = Append(@, made)]
               ELSE awaitPost(
                      [custom EXCEPT
                         !.pc = "return",
                         !.llmCalls = Append(@, made),
                         !.finalApp = generateFinalAppStructure(
                                         custom.templateDef,
                                         custom.uiCustomization, packagePatches),
                         !.posts = Append(@, CustomPost(custom.agentId, 90,
                                                        "finalizing_app"))], o)
    /\ CustomVarsUnchanged

\* Line 445.
CustomReturn ==
    /\ custom # NoValue /\ custom.pc = "return"
    /\ custom' = [custom EXCEPT !.pc = "returned"]
    /\ CustomVarsUnchanged

NextCustomize == CustomStart \/ CustomUI \/ CustomFunctionality \/ CustomReturn

SpecCustomize == InitCustomize /\ [][NextCustomize]_vars

\* C25: when the template definition cannot be found or parsed, the call
\* raises with no progress update posted and no model call made.
C25_LoadFailureAbortsFirst ==
    (custom # NoValue /\ custom.raisedBy = "loadTemplateDefinition") =>
        /\ custom.pc = "raised"
        /\ custom.posts = << >>
        /\ custom.llmCalls = << >>

\* The definition of a name that is not on disk has been asked for.
C25_Witness ==
    /\ custom # NoValue
    /\ custom.templateName = "no-such-template"
    /\ custom.pc = "raised"
    /\ custom.raisedBy = "loadTemplateDefinition"

\* C26: the UI customization never raises: when the UI generation fails or
\* returns no file, the UI source is the placeholder comment and the call
\* goes on to the functionality step.
C26_UIFailureIsPlaceholder ==
    custom # NoValue =>
        /\ custom.raisedBy # "generateUICustomization"
        /\ (Len(custom.llmCalls) >= 1 /\ custom.llmCalls[1].threw) =>
              /\ custom.pc \in {"functionality", "return", "returned", "raised"}
              /\ custom.uiCustomization = JStr(Placeholder)

(***************************************************************************)
(* The agent-state Durable Object (src/do/AgentStateDO.ts) and the routes   *)
(* of the Worker that reach it.  store holds the storage of each object by  *)
(* name, the number of progress snapshots the orchestrator has posted, the  *)
(* answer to the last post, what the last reader got, and the clock.        *)
(***************************************************************************)
MaxUpdates == 2

\* The progress snapshots of a run of generateApp for agent-a, in the order
\* it posts them; the last one is the "completed" snapshot.
RunSnapshots ==
    << [phase |-> "planning", progress |-> Progress(0), status |-> "generating"],
       [phase |-> "foundation", progress |-> Progress(1), status |-> "generating"],
       [phase |-> "complete", progress |-> Hundred, status |-> "completed"] >>

ProgressAgent == "agent-a"

\* `${userId}:${agentId}`
SessionName(userId, agent) == userId \o ":" \o agent

\* The (userId, agentId) pairs of the session routes; "" is an id that the
\* request does not give.  Identifiers are strings of the caller's choice.
SessionPairs ==
    { <<"user-1", "agent-a">>, <<"user-1:agent", "agent-a">>,
      <<"user-1", "agent:agent-a">>, <<"", "agent-a">>, <<"user-1", "">> }

CompletePairs == { p \in SessionPairs : p[1] # "" /\ p[2] # "" }

ObjectNames ==
    {ProgressAgent} \cup { SessionName(p[1], p[2]) : p \in CompletePairs }

\* storage.get("session") of an object that has none.
NoSession == NoValue

NoAnswers == [k \in {} |-> ""]

\* step and answers of the body of POST /api/session/save; a member the
\* request does not give is left out of the patch.
SavedFields ==
    { [answers |-> [k \in {"q1"} |-> "yes"]],
      [step |-> "style", answers |-> [k \in {"q1"} |-> "no"]],
      [step |-> "llm", answers |-> [k \in {"q2"} |-> "blue"]],
      [step |-> "review"] }

\* JSON.stringify({ userId, agentId, step, answers })
SessionPatch(pair, fields) ==
    Spread([userId |-> pair[1], agentId |-> pair[2]], fields)

\* A patch given to updateSession by another caller: it names no ids and
\* carries an updatedAt of its own.
DirectPatches == { [step |-> "build", updatedAt |-> 99] }

getSession(session) == session

\* Mutant of updateSession: the answers of the patch replace the stored ones.
updateSessionReplacingAnswers(session, patch, now) ==
    LET current == IF session = NoSession
                   THEN [agentId |-> "", userId |-> "", step |-> "functional",
                         answers |-> NoAnswers, updatedAt |-> now]
                   ELSE session
    IN [Spread(current, patch) EXCEPT
          !.answers = IF "answers" \in DOMAIN patch THEN patch.answers
                      ELSE NoAnswers,
          !.updatedAt = now]

\* { ...current, ...patch, answers: { ...current.answers, ...patch.answers },
\*   updatedAt: now }
updateSession(session, patch, now) ==
    LET current == IF session = NoSession
                   THEN [agentId |-> "", userId |-> "", step |-> "functional",
                         answers |-> NoAnswers, updatedAt |-> now]
                   ELSE session
    IN [Spread(current, patch) EXCEPT
          !.answers = Spread(current.answers,
                             IF "answers" \in DOMAIN patch THEN patch.answers
                             ELSE NoAnswers),
          !.updatedAt = now]

\* A response: its status, whether its body is JSON, and the body.
Response(status, isJSON, body) ==
    [status |-> status, isJSON |-> isJSON, body |-> body]

\* AgentStateDO.fetch on an object whose storage holds session: the storage
\* afterwards and the response.
AgentStateDOfetch(method, pathname, body, session, now) ==
    IF method = "GET" /\ pathname = "/session"
    THEN [session |-> session,
          response |-> Response(200, TRUE, getSession(session))]
    ELSE IF method = "PUT" /\ pathname = "/session"
    THEN [session |-> updateSession(session, body, now),
          response |-> Response(200, TRUE, updateSession(session, body, now))]
    ELSE IF method = "DELETE" /\ pathname = "/session"
    THEN [session |-> NoSession,
          response |-> Response(200, TRUE, [ok |-> TRUE])]
    ELSE [session |-> session,
          response |-> Response(404, FALSE, "Not found")]

\* await response.json(): the parsed body, or a SyntaxError for a body that
\* is not JSON.
responseJson(response) ==
    IF response.isJSON THEN [threw |-> FALSE, value |-> response.body]
    ELSE [threw |-> TRUE, value |-> NoValue]

NoPair == <<"", "">>

NoRead ==
    [route |-> "", pair |-> NoPair, after |-> 0, threw |-> FALSE,
     value |-> NoValue]

\* What a route has read: the route, the ids of the request, the number of
\* snapshots posted before, and the parsed answer.
Read(route, pair, after, parsed) ==
    [route |-> route, pair |-> pair, after |-> after, threw |-> parsed.threw,
     value |-> parsed.value]

\* c.json({ error: "Missing ids" }, 400)
MissingIds == [threw |-> FALSE, value |-> [error |-> "Missing ids"]]

\* history and returned follow each object since its last clearSession: the
\* patches given to updateSession with their times, and what the last
\* updateSession returned.
InitStore ==
    /\ NoRun
    /\ pure = NoValue
    /\ runs = << >>
    /\ progressWrites = {}
    /\ bucketWrites = {}
    /\ custom = NoValue
    /\ store = [storage |-> [n \in ObjectNames |-> NoSession],
                history |-> [n \in ObjectNames |-> << >>],
                returned |-> [n \in ObjectNames |-> NoValue],
                sent |-> 0, lastStatus |-> 0, read |-> NoRead, now |-> 0]
    /\ sandbox = NoValue
    /\ sockets = NoValue

StoreVarsUnchanged ==
    UNCHANGED <<runVars, pure, sessionVars, custom, registryVars>>

\* generateApp lines 62-69 and 89-97: the next snapshot of the run is
\* posted to the object of the agent.
StorePostProgress ==
    /\ store # NoValue /\ store.sent < Len(RunSnapshots)
    /\ LET after == AgentStateDOfetch("POST", "/progress",
                                      RunSnapshots[store.sent + 1],
                                      store.storage[ProgressAgent], store.now)
       IN store' = [store EXCEPT !.storage[ProgressAgent] = after.session,
                                 !.sent = @ + 1,
                                 !.lastStatus = after.response.status]
    /\ StoreVarsUnchanged

\* GET /api/ws/:agentId: the observer asks the object of the agent for its
\* status and parses the answer.
StoreObserveStatus ==
    /\ store # NoValue
    /\ LET after == AgentStateDOfetch("GET", "/status", NoValue,
                                      store.storage[ProgressAgent], store.now)
       IN store' = [store EXCEPT
                      !.storage[ProgressAgent] = after.session,
                      !.read = Read("/api/ws/:agentId", <<"", ProgressAgent>>,
                                    store.sent, responseJson(after.response))]
    /\ StoreVarsUnchanged

\* The object name is updated with patch at the next tick of the clock.
Updated(name, patch) ==
    LET after == AgentStateDOfetch("PUT", "/session", patch,
                                   store.storage[name], store.now + 1)
    IN [store EXCEPT
          !.storage[name] = after.session,
          !.history[name] = Append(@, [patch |-> patch, at |-> store.now + 1]),
          !.returned[name] = responseJson(after.response).value,
          !.now = @ + 1]

\* POST /api/session/save.
StoreSaveSession ==
    /\ store # NoValue /\ store.now < MaxUpdates
    /\ \E pair \in SessionPairs, fields \in SavedFields :
          IF pair \in CompletePairs
          THEN LET name == SessionName(pair[1], pair[2])
                   saved == Updated(name, SessionPatch(pair, fields))
               IN store' = [saved EXCEPT
                              !.read = Read("/api/session/save", pair, store.sent,
                                            [threw |-> FALSE,
                                             value |-> saved.returned[name]])]
          ELSE store' = [store EXCEPT
                           !.read = Read("/api/session/save", pair, store.sent,
                                         MissingIds)]
    /\ StoreVarsUnchanged

\* updateSession called with a patch that is not the router's.
StoreUpdateSession ==
    /\ store # NoValue /\ store.now < MaxUpdates
    /\ \E name \in ObjectNames \ {ProgressAgent}, patch \in DirectPatches :
          store' = Updated(name, patch)
    /\ StoreVarsUnchanged

\* GET /api/session.
StoreGetSession ==
    /\ store # NoValue
    /\ \E pair \in SessionPairs :
          IF pair \in CompletePairs
          THEN LET name == SessionName(pair[1], pair[2])
                   after == AgentStateDOfetch("GET", "/session", NoValue,
                                              store.storage[name], store.now)
               IN store' = [store EXCEPT
                              !.storage[name] = after.session,
                              !.read = Read("/api/session", pair, store.sent,
                                            responseJson(after.response))]
          ELSE store' = [store EXCEPT
                           !.read = Read("/api/session", pair, store.sent,
                                         MissingIds)]
    /\ StoreVarsUnchanged

\* DELETE /session on the object of a session.
StoreClearSession ==
    /\ store # NoValue
    /\ \E name \in ObjectNames \ {ProgressAgent} :
          LET after == AgentStateDOfetch("DELETE", "/session", NoValue,
                                         store.storage[name], store.now)
          IN store' = [store EXCEPT !.storage[name] = after.session,
                                    !.history[name] = << >>,
                                    !.returned[name] = NoValue]
    /\ StoreVarsUnchanged

NextStore ==
    \/ StorePostProgress
    \/ StoreObserveStatus
    \/ StoreSaveSession
    \/ StoreUpdateSession
    \/ StoreGetSession
    \/ StoreClearSession

SpecStore == InitStore /\ [][NextStore]_vars

\* C28: what the observer of a session reads is the last progress snapshot
\* the orchestrator posted for that session before the read, and so the
\* "completed" snapshot once the run has finished.
C28_ObserverReadsLastSnapshot ==
    (/\ store # NoValue
     /\ store.read.route = "/api/ws/:agentId"
     /\ store.read.after > 0) =>
        /\ ~store.read.threw
        /\ store.read.value = RunSnapshots[store.read.after]

\* C31: the keyword rule adds 30 when the description and the template name
\* share journal, idea or dashboard, otherwise 20 when the description
\* contains track or manage and the template has the workflow_management
\* capability, otherwise 0: never more than 30, and matching rules do not
\* add up.
C31_KeywordFirstMatchWins ==
    Called("calculateTemplateMatch") =>
        LET template == pure.args.template
            jtbd == toLowerCase(pure.args.requirements.jtbds)
            shared == \E k \in {"journal", "idea", "dashboard"} :
                         includes(jtbd, k) /\ k \in template.words
            workflow == /\ includes(jtbd, "track") \/ includes(jtbd, "manage")
                        /\ "workflow_management" \in template.capabilities
            added == pure.out.rules[1].added
        IN /\ ~added.nan /\ added.den = 1
           /\ added.num = IF shared THEN 30 ELSE IF workflow THEN 20 ELSE 0
           /\ added.num <= 30

\* Both the journal rule and the track rule match, and 30 is added.
C31_Witness ==
    /\ Called("calculateTemplateMatch")
    /\ pure.args.template = JournalApp
    /\ pure.args.requirements.jtbds = Description({"track", "journal"}, "lower")
    /\ pure.out.rules[1].added = Number(30, 1)

\* C35: the selector returns a decision for every registry: when no
\* template definition is available it returns the fallback decision and
\* does not raise.
C35_EmptyRegistryFallsBack ==
    Called("selectTemplateForJTBD") =>
        /\ ~pure.out.raised
        /\ Len(pure.args.registry) = 0 => pure.out.fallbackGeneration

\* The number of phases that have returned among the first i calls.
ReturnedUpTo(i) == Cardinality({k \in 1..i : llmCalls[k].call.ok})

\* The styling call i was answered with text that is not JSON: it returned,
\* with no file.
MalformedStyling(i) ==
    /\ llmCalls[i].call.phase = "styling"
    /\ llmCalls[i].call.fn = "generateUIWithGoogle"
    /\ ~llmCalls[i].call.threw
    /\ llmCalls[i].call.ok
    /\ llmCalls[i].call.files = << >>

C33_TwoUpdatesInOrder ==
    custom # NoValue =>
        /\ Len(custom.posts) <= 2
        /\ Len(custom.posts) >= 1 =>
              custom.posts[1] = CustomPost(custom.agentId, 10,
                                           "analyzing_requirements")
        /\ Len(custom.posts) = 2 =>
              /\ custom.posts[2] = CustomPost(custom.agentId, 90,
                                              "finalizing_app")
              /\ Len(custom.llmCalls) = 2
              /\ \A i \in DOMAIN custom.llmCalls : ~custom.llmCalls[i].threw
        /\ Len(custom.llmCalls) >= 1 => Len(custom.posts) >= 1
        /\ \A i \in DOMAIN custom.posts : custom.posts[i].status # "completed"
        /\ custom.pc = "returned" => Len(custom.posts) = 2
        /\ custom.raisedBy \in {"generateUICustomization",
                                "generateFunctionalityCustomization"}
              => Len(custom.posts) = 1

\* A call has returned after two model calls and two updates.
C33_Witness ==
    /\ custom # NoValue
    /\ custom.pc = "returned"
    /\ Len(custom.llmCalls) = 2
    /\ Len(custom.posts) = 2

\* The statuses that do not end a run.
NonTerminalStatuses == {"generating", "analyzing_requirements", "finalizing_app"}

WritesBy(r) == { w \in progressWrites : w.by = r }

\* The run r has raised, and not by the rejection of its own "completed"
\* update.
RaisedBeforeCompletion(r) ==
    /\ runs[r].pc = "raised"
    /\ \A w \in WritesBy(r) : w.phase # "complete"

\* C34: the statuses the core writes are generating,
\* analyzing_requirements, finalizing_app and completed, never "error"; a
\* run that has raised to its caller has written "completed" only when it
\* is the post of that very update that failed, so what it leaves in the
\* progress store has a non-terminal status.
C34_NoErrorStatus ==
    /\ \A w \in progressWrites :
          w.status \in NonTerminalStatuses \cup {"completed"}
    /\ \A r \in DOMAIN runs :
          /\ \A w \in WritesBy(r) :
                w.status = "completed" =>
                   /\ runs[r].kind = "generateApp"
                   /\ w.phase = "complete"
                   /\ runs[r].pc \in {"returned", "raised"}
          /\ RaisedBeforeCompletion(r) =>
                \A w \in WritesBy(r) : w.status \in NonTerminalStatuses

\* A generateApp run has raised while storing its assets, after its six
\* "generating" updates.
C34_Witness ==
    \E r \in DOMAIN runs :
       /\ runs[r].kind = "generateApp"
       /\ RaisedBeforeCompletion(r)
       /\ Cardinality(WritesBy(r)) = Len(phases)

\* ---- Sessions of the key-value actor ----

SessionObjects == ObjectNames \ {ProgressAgent}

\* The positions of the history h whose patch supplies the field f.
Supplying(h, f) == { i \in 1..Len(h) : f \in DOMAIN h[i].patch }

\* The positions of the history h whose patch supplies the answer k.
Answering(h, k) ==
    { i \in Supplying(h, "answers") : k \in DOMAIN h[i].patch.answers }

Latest(positions) == CHOOSE i \in positions : \A j \in positions : j <= i

AnswerKeys(h) ==
    UNION { DOMAIN h[i].patch.answers : i \in Supplying(h, "answers") }

\* What a field that no patch has supplied holds.
FieldDefault(f) == IF f = "step" THEN "functional" ELSE ""

\* C36: after updateSession calls with no clearSession in between, the
\* stored answers have every key that a patch supplied, with the value of
\* the latest patch supplying it; userId, agentId and step hold the latest
\* patched values; updatedAt is the time of the last update whatever the
\* patch said; getSession returns what the last updateSession returned; and
\* with no update since clearSession, getSession returns null.
C36_SessionMerge ==
    store # NoValue =>
      \A n \in SessionObjects :
        LET h == store.history[n]
            session == getSession(store.storage[n])
        IN IF h = << >>
           THEN session = NoSession /\ store.returned[n] = NoValue
           ELSE /\ session # NoSession
                /\ DOMAIN session.answers = AnswerKeys(h)
                /\ \A k \in AnswerKeys(h) :
                     session.answers[k] =
                       h[Latest(Answering(h, k))].patch.answers[k]
                /\ \A f \in {"userId", "agentId", "step"} :
                     session[f] = IF Supplying(h, f) = {} THEN FieldDefault(f)
                                  ELSE h[Latest(Supplying(h, f))].patch[f]
                /\ session.updatedAt = h[Len(h)].at
                /\ session = store.returned[n]

\* Two updates of one session, the first answering q1 and the second q2.
C36_Witness ==
    /\ store # NoValue
    /\ \E n \in SessionObjects :
         /\ Len(store.history[n]) = 2
         /\ Answering(store.history[n], "q1") = {1}
         /\ Answering(store.history[n], "q2") = {2}
         /\ DOMAIN store.storage[n].answers = {"q1", "q2"}

\* What GET /api/session answers for the pair p in the store st.
SessionRead(st, p) == getSession(st.storage[SessionName(p[1], p[2])])

\* The step is a POST /api/session/save.
SaveStep == store # NoValue /\ store'.read.route = "/api/session/save"
              /\ store'.read # store.read

\* C39: sessions of distinct (userId, agentId) pairs are distinct entries: a
\* save for one pair leaves what a read for any other pair returns as it
\* was, and a save that lacks userId or agentId writes nothing.
C39_PairsAreIsolated ==
    [][ SaveStep =>
          /\ \A p \in CompletePairs :
               p # store'.read.pair => SessionRead(store', p) = SessionRead(store, p)
          /\ store'.read.pair \notin CompletePairs =>
               store'.storage = store.storage ]_vars

\* A save that lacks an id writes nothing and answers "Missing ids".
C39_MissingIdsWriteNothing ==
    [][ SaveStep /\ store'.read.pair \notin CompletePairs =>
          /\ store'.storage = store.storage
          /\ store'.read.value = [error |-> "Missing ids"] ]_vars

\* ---- SandboxService: the container registry ----

\* config.maxInstances of the service under check.
MaxInstances == 1

\* The calls made on the service, and the ticks of Date.now(), of one
\* behaviour.
MaxCalls == 3

\* `preview-${this.config.agentId}-${Date.now()}`: one service has one
\* agentId, so the identifier is told by the time.
PreviewId(now) == now

ContainerIds == { PreviewId(t) : t \in 0..MaxCalls }

\* A call on the service: pc is "awaiting" while the call is suspended at an
\* await and "returned" afterwards; size is activeContainers.size when the
\* call arrived; containers is what the call read from the map.
SandboxCall(fn, at, size, containers, success) ==
    [fn |-> fn, pc |-> at, size |-> size, containers |-> containers,
     success |-> success]

InitSandbox ==
    /\ NoRun
    /\ pure = NoValue
    /\ runs = << >>
    /\ progressWrites = {}
    /\ bucketWrites = {}
    /\ custom = NoValue
    /\ store = NoValue
    /\ sandbox = [activeContainers |-> {}, calls |-> << >>, now |-> 0]
    /\ sockets = NoValue

SandboxVarsUnchanged ==
    UNCHANGED <<runVars, pure, sessionVars, custom, store, sockets>>

CanCall == sandbox # NoValue /\ Len(sandbox.calls) < MaxCalls

Suspended(i, fn) ==
    /\ sandbox # NoValue
    /\ i \in 1..Len(sandbox.calls)
    /\ sandbox.calls[i].fn = fn
    /\ sandbox.calls[i].pc = "awaiting"

\* createPreview lines 261-274: the limit check, the identifier, and the
\* first await.
SandboxCreatePreview ==
    /\ CanCall
    /\ LET size == Cardinality(sandbox.activeContainers)
       IN sandbox' =
            [sandbox EXCEPT !.calls = Append(@,
               IF size >= MaxInstances
               THEN SandboxCall("createPreview", "returned", size, {}, FALSE)
               ELSE SandboxCall("createPreview", "awaiting", size,
                                {PreviewId(sandbox.now)}, TRUE))]
    /\ SandboxVarsUnchanged

\* createPreview lines 276-294: after the awaits, the container is stored
\* and the call returns success.
SandboxPreviewStored(i) ==
    /\ Suspended(i, "createPreview")
    /\ sandbox' = [sandbox EXCEPT
                     !.activeContainers = @ \cup sandbox.calls[i].containers,
                     !.calls[i].pc = "returned"]
    /\ SandboxVarsUnchanged

\* cleanup lines 386-389: the container is looked up, and cleaned if the
\* map has it.
SandboxCleanup ==
    /\ CanCall
    /\ \E containerId \in ContainerIds :
         LET size == Cardinality(sandbox.activeContainers)
         IN sandbox' =
              [sandbox EXCEPT !.calls = Append(@,
                 IF containerId \in sandbox.activeContainers
                 THEN SandboxCall("cleanup", "awaiting", size, {containerId},
                                  TRUE)
                 ELSE SandboxCall("cleanup", "returned", size, {}, TRUE))]
    /\ SandboxVarsUnchanged

\* cleanup line 390.
SandboxCleanupDeleted(i) ==
    /\ Suspended(i, "cleanup")
    /\ sandbox' = [sandbox EXCEPT
                     !.activeContainers = @ \ sandbox.calls[i].containers,
                     !.calls[i].pc = "returned"]
    /\ SandboxVarsUnchanged

\* cleanupAll lines 394-398: the containers of the map at the call are
\* cleaned.
SandboxCleanupAll ==
    /\ CanCall
    /\ sandbox' =
         [sandbox EXCEPT !.calls = Append(@,
            SandboxCall("cleanupAll", "awaiting",
                        Cardinality(sandbox.activeContainers),
                        sandbox.activeContainers, TRUE))]
    /\ SandboxVarsUnchanged

\* cleanupAll line 399: this.activeContainers.clear()
SandboxCleanupAllCleared(i) ==
    /\ Suspended(i, "cleanupAll")
    /\ sandbox' = [sandbox EXCEPT !.activeContainers = {},
                                  !.calls[i].pc = "returned"]
    /\ SandboxVarsUnchanged

\* Date.now() moves on.
SandboxTick ==
    /\ sandbox # NoValue /\ sandbox.now < MaxCalls
    /\ sandbox' = [sandbox EXCEPT !.now = @ + 1]
    /\ SandboxVarsUnchanged

NextSandbox ==
    \/ SandboxCreatePreview
    \/ \E i \in 1..MaxCalls : SandboxPreviewStored(i)
    \/ SandboxCleanup
    \/ \E i \in 1..MaxCalls : SandboxCleanupDeleted(i)
    \/ SandboxCleanupAll
    \/ \E i \in 1..MaxCalls : SandboxCleanupAllCleared(i)
    \/ SandboxTick

SpecSandbox == InitSandbox /\ [][NextSandbox]_vars

\* getActiveContainerCount()
getActiveContainerCount == Cardinality(sandbox.activeContainers)

\* A createPreview that arrived with the limit reached has returned
\* success: false and has no container to add.
RefusedAtLimit ==
    \A i \in 1..Len(sandbox.calls) :
       LET call == sandbox.calls[i]
       IN call.fn = "createPreview" /\ call.size >= MaxInstances =>
            call.pc = "returned" /\ ~call.success /\ call.containers = {}

\* C37: the number of active containers never exceeds maxInstances under
\* any interleaving of createPreview, cleanup and cleanupAll calls, and a
\* createPreview that arrives with the limit reached returns success: false
\* and adds no container.
C37_WithinMaxInstances ==
    sandbox # NoValue =>
      /\ getActiveContainerCount <= MaxInstances
      /\ RefusedAtLimit

\* The refusal at the limit alone.
C37_RefusedAtLimit == sandbox # NoValue => RefusedAtLimit

\* ---- WebSocketManager: the connection registry ----

\* The connections of one behaviour, by connectionId.
ConnectionIds == {"c1", "c2"}

SocketAgents == {"agent-a", "agent-b"}

\* message.agentId is optional: "" is a message without one.
MessageAgents == SocketAgents \cup {""}

Message(type, agent) == [type |-> type, agentId |-> agent]

\* this.connections.delete(connectionId)
MapDelete(connections, gone) ==
    [c \in DOMAIN connections \ gone |-> connections[c]]

\* this.connections.set(connectionId, { websocket, agentId, userId })
MapSet(connections, connectionId, agent) ==
    [c \in DOMAIN connections \cup {connectionId} |->
       IF c = connectionId THEN agent ELSE connections[c]]

\* Mutant of agentConnections: the agentId of the connection is not looked
\* at.
agentConnectionsOfAll(connections, agent) == DOMAIN connections

\* Array.from(this.connections.values()).filter(conn => conn.agentId === agentId)
agentConnections(connections, agent) ==
    { c \in DOMAIN connections : connections[c] = agent }

\* What a connection has received by a broadcast: the agent of the
\* broadcast and, as the connection was then, its socket, the agentId of
\* its latest subscribe message ("" if that gave none, or if there was no
\* subscribe) and the latest agentId that a subscribe message gave.
Delivery(st, c, agent) ==
    [agentId |-> agent, socket |-> st.socket[c], latest |-> st.latest[c],
     named |-> st.named[c]]

\* broadcastToAgent up to its await: send to every connection of the agent;
\* a connection whose send raises is deleted.
broadcastToAgent(st, agent) ==
    LET targets == agentConnections(st.connections, agent)
        alive == { c \in targets : st.socket[c] = "open" }
    IN [st EXCEPT
          !.delivered = [c \in ConnectionIds |->
                           IF c \in alive THEN Delivery(st, c, agent)
                           ELSE st.delivered[c]],
          !.connections = MapDelete(@, targets \ alive)]

\* getAgentStatus: the status object of the agent is asked and its answer
\* parsed.
getAgentStatus(agent) ==
    responseJson(AgentStateDOfetch("GET", "/status", NoValue, NoSession,
                                   0).response)

\* What handling a message did: the reply sent to the sender, and the agent
\* of the broadcast it made ("" for none).
Effect(reply, broadcast) == [reply |-> reply, broadcast |-> broadcast]

Ignored == Effect("", "")

\* handleMessage, with the catch of the message listener.
handleMessage(connections, message, connectionId) ==
    IF connectionId \notin DOMAIN connections THEN Ignored
    ELSE IF message.type = "get_status" /\ message.agentId # ""
    THEN IF getAgentStatus(message.agentId).threw
         THEN Effect("Invalid message format", "")
         ELSE Effect("status_update", "")
    ELSE IF message.type = "update_progress" /\ message.agentId # ""
    THEN Effect("", message.agentId)
    ELSE Ignored

NoHandled == [connectionId |-> "", message |-> Message("", ""),
              registered |-> FALSE, effect |-> Ignored]

InitSockets ==
    /\ NoRun
    /\ pure = NoValue
    /\ runs = << >>
    /\ progressWrites = {}
    /\ bucketWrites = {}
    /\ custom = NoValue
    /\ store = NoValue
    /\ sandbox = NoValue
    /\ sockets = [connections |-> [c \in {} |-> ""],
                  socket |-> [c \in ConnectionIds |-> "none"],
                  latest |-> [c \in ConnectionIds |-> ""],
                  named |-> [c \in ConnectionIds |-> ""],
                  delivered |-> [c \in ConnectionIds |-> NoValue],
                  handled |-> NoHandled]

SocketVarsUnchanged ==
    UNCHANGED <<runVars, pure, sessionVars, custom, store, sandbox>>

IsOpen(c) == sockets # NoValue /\ sockets.socket[c] = "open"

\* handleWebSocket lines 43-53: the socket is accepted and greeted.
SocketConnect(c) ==
    /\ sockets # NoValue /\ sockets.socket[c] = "none"
    /\ sockets' = [sockets EXCEPT !.socket[c] = "open"]
    /\ SocketVarsUnchanged

\* The message listener, case 'subscribe'.
SocketSubscribe(c, agent) ==
    /\ IsOpen(c)
    /\ sockets' = [sockets EXCEPT
                     !.connections = IF agent # "" THEN MapSet(@, c, agent)
                                     ELSE @,
                     !.latest[c] = agent,
                     !.named[c] = IF agent # "" THEN agent ELSE @]
    /\ SocketVarsUnchanged

\* The message listener, default case: get_status and update_progress.
SocketMessage(c, message) ==
    /\ IsOpen(c)
    /\ LET effect == handleMessage(sockets.connections, message, c)
           after == IF effect.broadcast # ""
                    THEN broadcastToAgent(sockets, effect.broadcast)
                    ELSE sockets
       IN sockets' = [after EXCEPT
                        !.handled = [connectionId |-> c, message |-> message,
                                     registered |-> c \in DOMAIN sockets.connections,
                                     effect |-> effect]]
    /\ SocketVarsUnchanged

\* broadcastToAgent called by the server.
SocketBroadcast(agent) ==
    /\ sockets # NoValue
    /\ sockets' = broadcastToAgent(sockets, agent)
    /\ SocketVarsUnchanged

\* The socket of a connection breaks; no event has been dispatched yet, and
\* a send to it raises.
SocketBreak(c) ==
    /\ IsOpen(c)
    /\ sockets' = [sockets EXCEPT !.socket[c] = "broken"]
    /\ SocketVarsUnchanged

\* The 'close' listener.
SocketClose(c) ==
    /\ sockets # NoValue /\ sockets.socket[c] \in {"open", "broken"}
    /\ sockets' = [sockets EXCEPT !.socket[c] = "closed",
                                  !.connections = MapDelete(@, {c})]
    /\ SocketVarsUnchanged

\* The 'error' listener.
SocketError(c) ==
    /\ sockets # NoValue /\ sockets.socket[c] \in {"open", "broken"}
    /\ sockets' = [sockets EXCEPT !.socket[c] = "errored",
                                  !.connections = MapDelete(@, {c})]
    /\ SocketVarsUnchanged

\* startHeartbeat: a ping to every connection; one whose send raises is
\* deleted.
SocketHeartbeat ==
    /\ sockets # NoValue
    /\ sockets' = [sockets EXCEPT
                     !.connections =
                        MapDelete(@, { c \in DOMAIN sockets.connections :
                                         sockets.socket[c] # "open" })]
    /\ SocketVarsUnchanged

NextSockets ==
    \/ \E c \in ConnectionIds : SocketConnect(c)
    \/ \E c \in ConnectionIds, agent \in MessageAgents : SocketSubscribe(c, agent)
    \/ \E c \in ConnectionIds, agent \in MessageAgents,
          type \in {"get_status", "update_progress"} :
          SocketMessage(c, Message(type, agent))
    \/ \E agent \in SocketAgents : SocketBroadcast(agent)
    \/ \E c \in ConnectionIds : SocketBreak(c)
    \/ \E c \in ConnectionIds : SocketClose(c)
    \/ \E c \in ConnectionIds : SocketError(c)
    \/ SocketHeartbeat

SpecSockets == InitSockets /\ [][NextSockets]_vars

\* The connections that a broadcast has reached.
Reached == { c \in ConnectionIds : sockets.delivered[c] # NoValue }

\* A connection that no subscribe message has registered receives no
\* broadcast, and its get_status and update_progress messages have no
\* effect.
UnsubscribedIsIgnored ==
    /\ \A c \in ConnectionIds : sockets.named[c] = "" => c \notin Reached
    /\ ~sockets.handled.registered => sockets.handled.effect = Ignored

\* C38 as stated: a broadcast for agent A reaches only connections whose
\* latest subscribe message named A and that have not closed or errored; a
\* connection that never subscribed receives no broadcast and its
\* get_status and update_progress messages are ignored.
C38_LatestSubscribeNamesAgent ==
    sockets # NoValue =>
      /\ \A c \in Reached :
           /\ sockets.delivered[c].latest = sockets.delivered[c].agentId
           /\ sockets.delivered[c].socket = "open"
      /\ UnsubscribedIsIgnored

\* C38 amended: a broadcast for agent A reaches only connections for which
\* the latest subscribe message that gave an agentId gave A, and that have
\* not closed or errored; a subscribe message without agentId changes
\* nothing.  A connection that never subscribed receives no broadcast and
\* its get_status and update_progress messages are ignored.
C38_LatestNamedAgent ==
    sockets # NoValue =>
      /\ \A c \in Reached :
           /\ sockets.delivered[c].named = sockets.delivered[c].agentId
           /\ sockets.delivered[c].socket = "open"
      /\ \A c \in DOMAIN sockets.connections :
           /\ sockets.connections[c] = sockets.named[c]
           /\ sockets.socket[c] \notin {"closed", "errored"}
      /\ UnsubscribedIsIgnored

\* A connection subscribed to agent-a and then to agent-b has received a
\* broadcast for agent-b while another connection, which never subscribed,
\* has sent update_progress and received nothing.
C38_Witness ==
    /\ sockets # NoValue
    /\ \E c, d \in ConnectionIds :
         /\ c # d
         /\ sockets.delivered[c] # NoValue
         /\ sockets.delivered[c].agentId = "agent-b"
         /\ sockets.named[c] = "agent-b"
         /\ sockets.socket[d] = "open" /\ sockets.named[d] = ""
         /\ sockets.handled.connectionId = d
         /\ sockets.handled.message.type = "update_progress"
         /\ sockets.delivered[d] = NoValue

====
